---- MODULE Spec2Model ----
(***************************************************************************)
(* GitPing: the poll -> detect -> dedup -> fan-out -> deliver pipeline.    *)
(*                                                                         *)
(* Stores: the upstream release list (GitHub), the POLL_STATE key/value    *)
(* cursor, the D1 tables repos / events / notifications / subscriptions,   *)
(* and the EVENTS queue.  Processes: scheduler invocations of poller.ts    *)
(* (queue variant) or simple-poller.ts (inline variant), the queue         *)
(* consumer of the notifier worker with its processSubscription tasks,     *)
(* and retry sweeps (retryFailedNotifications).                            *)
(*                                                                         *)
(* Conventions: an absent number (SQL NULL, JS undefined) is 0, an absent  *)
(* string is "".  Row ids start at 1 (AUTOINCREMENT), so a sequence index  *)
(* is the row id.  Time is Date.now() in milliseconds.                     *)
(***************************************************************************)
EXTENDS Integers, Sequences, FiniteSets, TLC

(* ------------------------------ bounds --------------------------------- *)
\* Spec: releases the upstream ever creates, scheduler invocations started
MaxRel == 2
MaxPolls == 3
\* SpecRetry: the same for poller.ts (simple-poller.ts gets one more of
\* each, its first poll only sets the baseline), the clock ticks and the
\* retry sweeps started
RetryRels == 1
RetryPolls == 1
MaxTicks == 4
MaxSweeps == 3
\* milliseconds per clock tick
TickMs == 200000

(* ------------------------- program constants --------------------------- *)
MaxRepoErrors == 5
RepoCooldownMs == 300000
NotifCooldownMs == 300000
MaxAttempts == 3
FailedLimit == 50
PageSize == 10

Repos == {1}
Pollers == {1, 2}
Sweepers == {1, 2}
SubIds == {1, 2}

VARIABLES
    lim,            \* the bounds of the behaviour (constant)
    outage,         \* SpecSched: the repos whose upstream answers with an
                    \* error (constant); elsewhere any fetch may fail
    sched,          \* SpecSched: the scheduled() invocation in flight
    variant,        \* "queue": poller.ts + notifier; "inline": simple-poller.ts
    subs,           \* subscriptions table (read-only to the pipeline)
    now,            \* Date.now()
    rels,           \* upstream releases, index = release id
    upEtag,         \* upstream ETag of the releases page
    upLastMod,      \* upstream Last-Modified of the releases page
    cursor,         \* POLL_STATE value per repo
    repos,          \* repos table: consecutive_errors, last_polled_at
    events,         \* events table
    notifications,  \* notifications table
    queue,          \* EVENTS queue
    tasks,          \* processSubscription promises in flight (ctx.waitUntil)
    poller,         \* scheduler invocations in flight
    sweep,          \* retry sweeps in flight
    nPolls,         \* invocations started
    nSweeps,        \* sweeps started
    fanned,         \* <<event id, subscription id>> whose fan-out has finished
    firstPollIds,   \* release ids fetched by a poll that found no cursor
    nmStreak,       \* consecutive not-modified polls per repo
    lost            \* SpecLost: the cursor writes that did not take effect

vars == <<lim, outage, sched, lost, variant, subs, now, rels, upEtag, upLastMod, cursor, repos,
          events, notifications, queue, tasks, poller, sweep, nPolls, nSweeps,
          fanned, firstPollIds, nmStreak>>

(* ----------------------------- helpers --------------------------------- *)
Range(s) == {s[i] : i \in 1..Len(s)}

RECURSIVE SetMax(_)
SetMax(S) == IF S = {} THEN 0
             ELSE LET x == CHOOSE y \in S : TRUE
                      m == SetMax(S \ {x})
                  IN IF x > m THEN x ELSE m

RECURSIVE Reverse(_)
Reverse(s) == IF s = <<>> THEN <<>> ELSE Append(Reverse(Tail(s)), Head(s))

RECURSIVE SelectSeqBy(_, _)
\* s.filter(Test) for a set Test of accepted elements
SelectSeqBy(s, Test) ==
    IF s = <<>> THEN <<>>
    ELSE IF Head(s) \in Test THEN <<Head(s)>> \o SelectSeqBy(Tail(s), Test)
         ELSE SelectSeqBy(Tail(s), Test)

\* ids of S, greatest first
RECURSIVE DescSeq(_)
DescSeq(S) == IF S = {} THEN <<>>
              ELSE LET m == SetMax(S) IN <<m>> \o DescSeq(S \ {m})

Digits == <<"0", "1", "2", "3", "4", "5", "6", "7", "8", "9">>

\* Number.prototype.toString() of a non-negative integer
RECURSIVE ToStr(_)
ToStr(n) == IF n < 10 THEN Digits[n + 1]
            ELSE ToStr(n \div 10) \o Digits[(n % 10) + 1]

\* parseInt() of a decimal string written by ToStr
ParseInt(s) == CHOOSE n \in 0..99 : ToStr(n) = s

(* ----------------------- tags and tag patterns ------------------------- *)
SemverPattern == "^v\\d+\\.\\d+\\.\\d+$"
BadPattern == "["

\* new RegExp(p) compiles
RegexValid(p) == p # BadPattern

\* new RegExp(p).test(tag), for the patterns and tags of this model
RegexTest(p, tag) ==
    IF p = SemverPattern THEN tag = "v1.0.0" ELSE TRUE

\* the releases the upstream can publish: (prerelease, tag_name)
ReleaseKinds == {
    [prerelease |-> FALSE, tag_name |-> "v1.0.0"],
    [prerelease |-> TRUE,  tag_name |-> "v2.0.0-rc1"],
    [prerelease |-> FALSE, tag_name |-> "nightly"] }


(* --------------------------- subscriptions ----------------------------- *)
\* a channel: its kind (Channel.type, verified_channels.channel_type) and
\* its address (chat_id, channel_identifier)
TelegramChannel == [type |-> "telegram", id |-> "42"]
EmailChannel == [type |-> "email", id |-> "a@b.c"]

\* a subscriptions row (filters_json, channels_json) with the
\* verified_channels rows linked to it by subscription_channels
Subscription(inc, regex, chans) ==
    [repo_id |-> 1, kind |-> "release",
     filters |-> [include_prereleases |-> inc, tag_regex |-> regex],
     channels_json |-> chans,
     verified |-> chans]

\* the subscription tables the pipeline is run against
SubConfigs == {
    <<Subscription("false", "", <<TelegramChannel>>),
      Subscription("unset", SemverPattern, <<TelegramChannel>>)>>,
    <<Subscription("unset", BadPattern, <<TelegramChannel>>),
      Subscription("true", "", <<EmailChannel>>)>> }

\* db.getSubscriptionsForRepo(repoId, kind), in rowid order
GetSubscriptionsForRepo(repoId, kind) ==
    SelectSeqBy(<<1, 2>>,
                {s \in SubIds : subs[s].repo_id = repoId /\ subs[s].kind = kind})

(* ------------------------------ filters -------------------------------- *)
\* shouldNotify() with the include_prereleases test left out
ShouldNotifyNoPrereleaseTest(kind, payload, filters) ==
    IF kind = "release" THEN
        IF filters.tag_regex # "" THEN
            IF ~RegexValid(filters.tag_regex) THEN "throw"
            ELSE IF ~RegexTest(filters.tag_regex, payload.tag_name) THEN "no"
            ELSE "yes"
        ELSE "yes"
    ELSE IF kind = "commit" THEN "yes"
    ELSE "no"

\* notifier shouldNotify(): "yes", "no", or "throw" when new RegExp() throws
ShouldNotify(kind, payload, filters) ==
    IF kind = "release" THEN
        IF filters.include_prereleases = "false" /\ payload.prerelease THEN "no"
        ELSE IF filters.tag_regex # "" THEN
            IF ~RegexValid(filters.tag_regex) THEN "throw"
            ELSE IF ~RegexTest(filters.tag_regex, payload.tag_name) THEN "no"
            ELSE "yes"
        ELSE "yes"
    ELSE IF kind = "commit" THEN "yes"
    ELSE "no"

\* the filter block of sendReleaseNotifications: TRUE unless it continues
InlineFilter(release, filters) ==
    IF filters.include_prereleases = "false" /\ release.prerelease THEN FALSE
    ELSE IF filters.tag_regex # "" THEN
        IF RegexValid(filters.tag_regex)
        THEN RegexTest(filters.tag_regex, release.tag_name)
        ELSE TRUE
    ELSE TRUE

\* filters.ts shouldNotifyRelease()
ShouldNotifyRelease(release, filters) ==
    IF release.draft THEN FALSE
    ELSE IF filters.include_prereleases = "false" /\ release.prerelease THEN FALSE
    ELSE IF filters.tag_regex # "" THEN
        IF RegexValid(filters.tag_regex)
        THEN RegexTest(filters.tag_regex, release.tag_name)
        ELSE TRUE
    ELSE TRUE

(* ----------------------------- delivery -------------------------------- *)
\* the outcomes of notifier sendNotification(): "" when the message was
\* sent, else the message of the Error thrown
SendNotification(channel) ==
    IF channel.type = "telegram" THEN
        IF channel.id = "" THEN {"Missing chat_id for Telegram channel"}
        ELSE {"", "Telegram API error"}
    ELSE IF channel.type = "email" THEN {"Email notifications not yet implemented"}
    ELSE IF channel.type = "slack" THEN {"Slack notifications not yet implemented"}
    ELSE IF channel.type = "webhook" THEN {"Webhook notifications not yet implemented"}
    ELSE {"Unknown channel type"}

\* the outcomes of the try block of sendReleaseNotifications: "" sent and
\* marked sent, an error message, or "skip" when the if had nothing to do
InlineSend(channel) ==
    IF channel.type = "telegram" /\ channel.id # ""
    THEN {"", "Telegram API error"}
    ELSE {"skip"}

(* --------------------------- database rows ----------------------------- *)
\* JSON payload of a release
Payload(id) ==
    [id |-> id, draft |-> rels[id].draft, prerelease |-> rels[id].prerelease,
     tag_name |-> rels[id].tag_name, published_at |-> rels[id].published_at]

\* createEvent() on an events table without the UNIQUE constraint
CreateEventNoUnique(evts, repoId, kind, externalId, payload, occurredAt) ==
    [events |-> Append(evts, [repo_id |-> repoId, kind |-> kind,
                              external_id |-> externalId,
                              payload |-> payload,
                              occurred_at |-> occurredAt]),
     id |-> Len(evts) + 1]

\* createEvent() as INSERT OR IGNORE followed by a SELECT of the row id: a
\* duplicate is answered with the id of the row that exists
CreateEventIgnore(evts, repoId, kind, externalId, payload, occurredAt) ==
    LET rows == {i \in 1..Len(evts) : /\ evts[i].repo_id = repoId
                                      /\ evts[i].kind = kind
                                      /\ evts[i].external_id = externalId}
    IN IF rows # {}
       THEN [events |-> evts, id |-> CHOOSE i \in rows : TRUE]
       ELSE [events |-> Append(evts, [repo_id |-> repoId, kind |-> kind,
                                      external_id |-> externalId,
                                      payload |-> payload,
                                      occurred_at |-> occurredAt]),
             id |-> Len(evts) + 1]

\* createEvent() as INSERT OR REPLACE: a duplicate deletes the row that
\* exists and inserts a new one
CreateEventReplace(evts, repoId, kind, externalId, payload, occurredAt) ==
    LET keep == {i \in 1..Len(evts) : ~(/\ evts[i].repo_id = repoId
                                        /\ evts[i].kind = kind
                                        /\ evts[i].external_id = externalId)}
        kept == [k \in 1..Cardinality(keep) |->
                    evts[CHOOSE i \in keep :
                             Cardinality({j \in keep : j <= i}) = k]]
    IN [events |-> Append(kept, [repo_id |-> repoId, kind |-> kind,
                                 external_id |-> externalId,
                                 payload |-> payload,
                                 occurred_at |-> occurredAt]),
        id |-> Len(kept) + 1]

\* db.createEvent(): the INSERT under UNIQUE(repo_id, kind, external_id);
\* id = 0 is the null returned on the constraint violation
CreateEvent(evts, repoId, kind, externalId, payload, occurredAt) ==
    IF \E i \in 1..Len(evts) :
           /\ evts[i].repo_id = repoId
           /\ evts[i].kind = kind
           /\ evts[i].external_id = externalId
    THEN [events |-> evts, id |-> 0]
    ELSE [events |-> Append(evts, [repo_id |-> repoId, kind |-> kind,
                                   external_id |-> externalId,
                                   payload |-> payload,
                                   occurred_at |-> occurredAt]),
          id |-> Len(evts) + 1]

\* db.getEvents(repoId, kind, 1): the rows ORDER BY occurred_at DESC LIMIT 1
\* can return (rows with equal occurred_at come in any order)
GetEvents1(evts, repoId, kind) ==
    LET match == {i \in 1..Len(evts) :
                      evts[i].repo_id = repoId /\ evts[i].kind = kind}
    IN {i \in match : \A j \in match : evts[j].occurred_at <= evts[i].occurred_at}

\* createNotification() counting the delivery when the row is created
CreateNotificationCounted(ns, eventId, subscriptionId, channel) ==
    Append(ns, [event_id |-> eventId, subscription_id |-> subscriptionId,
                channel |-> channel, status |-> "queued", attempts |-> 1,
                last_error |-> "", last_error_at |-> 0, sent_at |-> 0])

\* db.createNotification(): status and attempts take the column defaults
CreateNotification(ns, eventId, subscriptionId, channel) ==
    Append(ns, [event_id |-> eventId, subscription_id |-> subscriptionId,
                channel |-> channel, status |-> "queued", attempts |-> 0,
                last_error |-> "", last_error_at |-> 0, sent_at |-> 0])

\* updateNotificationStatus() without attempts = attempts + 1
UpdateNotificationStatusNoCount(ns, id, status, error, t) ==
    [ns EXCEPT ![id] =
        [@ EXCEPT !.status = status,
                  !.last_error = error,
                  !.last_error_at = IF status = "error" THEN t ELSE @,
                  !.sent_at = IF status = "sent" THEN t ELSE @]]

\* db.updateNotificationStatus(id, status, error) at time t
UpdateNotificationStatus(ns, id, status, error, t) ==
    [ns EXCEPT ![id] =
        [@ EXCEPT !.status = status,
                  !.attempts = @ + 1,
                  !.last_error = error,
                  !.last_error_at = IF status = "error" THEN t ELSE @,
                  !.sent_at = IF status = "sent" THEN t ELSE @]]

\* ids of S ordered by last_error_at ASC NULLS FIRST (ties by rowid)
RECURSIVE OldestFirst(_, _)
OldestFirst(ns, S) ==
    IF S = {} THEN <<>>
    ELSE LET m == CHOOSE i \in S : \A j \in S :
                      \/ ns[i].last_error_at < ns[j].last_error_at
                      \/ ns[i].last_error_at = ns[j].last_error_at /\ i <= j
         IN <<m>> \o OldestFirst(ns, S \ {m})

\* db.getFailedNotifications(maxAttempts) at time t
GetFailedNotifications(ns, maxAttempts, t) ==
    LET sel == {i \in 1..Len(ns) :
                   /\ ns[i].status = "error"
                   /\ ns[i].attempts < maxAttempts
                   /\ (ns[i].last_error_at = 0
                       \/ ns[i].last_error_at < t - NotifCooldownMs)}
        ord == OldestFirst(ns, sel)
    IN SubSeq(ord, 1, IF Len(ord) < FailedLimit THEN Len(ord) ELSE FailedLimit)

\* the WHERE clause of getReposForPolling without the cool-down test: a repo
\* at the error ceiling is never selected again
DueForPollingNoReprobe(repo, t) ==
    \/ repo.consecutive_errors < MaxRepoErrors
    \/ repo.last_polled_at = 0

\* the WHERE clause of db.getReposForPolling(minute) for a repo of the
\* invocation's shard, at time t
DueForPolling(repo, t) ==
    \/ repo.consecutive_errors < MaxRepoErrors
    \/ repo.last_polled_at = 0
    \/ repo.last_polled_at < t - RepoCooldownMs

\* db.updateRepoPollingState(id, consecutiveErrors) at time t
UpdateRepoPollingState(rs, id, consecutiveErrors, t) ==
    [rs EXCEPT ![id] = [consecutive_errors |-> consecutiveErrors,
                        last_polled_at |-> t]]

(* ------------------------------ upstream ------------------------------- *)
\* the releases page GitHub serves: newest first, per_page = 10
ReleasesPage ==
    LET all == DescSeq(1..Len(rels))
    IN SubSeq(all, 1, IF Len(all) < PageSize THEN Len(all) ELSE PageSize)

\* GitHubAPI.getReleases(): 304 when the stored validators still match
IsNotModified(state) ==
    IF state.etag # 0 THEN state.etag = upEtag
    ELSE state.lastModified # 0 /\ upLastMod <= state.lastModified

\* GitHubAPI.getReleases(): the releases of a 200 answer, drafts removed
GetReleases == SelectSeqBy(ReleasesPage, {i \in 1..Len(rels) : ~rels[i].draft})

(* ------------------------------ cursor --------------------------------- *)
NoCursor == [present |-> FALSE, lastSeenId |-> "", etag |-> 0,
             lastModified |-> 0, checkedAt |-> 0]

\* { ...currentState, checkedAt: Date.now() }
TouchState(currentState, t) ==
    [currentState EXCEPT !.present = TRUE, !.checkedAt = t]

\* poller.ts: the new releases of a fetch, in the order fetched
NewReleasesQueue(releases, lastSeenId) ==
    IF lastSeenId # ""
    THEN SelectSeqBy(releases, {i \in Range(releases) : i > ParseInt(lastSeenId)})
    ELSE <<releases[1]>>

\* the new releases with r.id >= lastSeenId in place of r.id > lastSeenId
NewReleasesInlineGeq(releases, lastSeenId) ==
    IF lastSeenId # ""
    THEN SelectSeqBy(releases, {i \in Range(releases) : i >= ParseInt(lastSeenId)})
    ELSE <<>>

\* simple-poller.ts: the new releases of a fetch, in the order fetched
NewReleasesInline(releases, lastSeenId) ==
    IF lastSeenId # ""
    THEN SelectSeqBy(releases, {i \in Range(releases) : i > ParseInt(lastSeenId)})
    ELSE <<>>

\* the cursor written after the loop, taking the oldest fetched release for
\* the latest
AdvancedStateOldest(releases, etag, lastModified, t) ==
    [present |-> TRUE, lastSeenId |-> ToStr(releases[Len(releases)]),
     etag |-> etag, lastModified |-> lastModified, checkedAt |-> t]

\* the cursor written after the new releases were processed
AdvancedState(releases, etag, lastModified, t) ==
    [present |-> TRUE, lastSeenId |-> ToStr(SetMax(Range(releases))),
     etag |-> etag, lastModified |-> lastModified, checkedAt |-> t]

\* the cursor written when the fetch returned no release
EmptyState(currentState, etag, lastModified, t) ==
    [present |-> TRUE, lastSeenId |-> currentState.lastSeenId,
     etag |-> etag, lastModified |-> lastModified, checkedAt |-> t]


(* ------------------------------ processes ------------------------------ *)
config == <<lim, outage, variant, subs>>
upstream == <<rels, upEtag, upLastMod>>

\* the locals of one scheduled() invocation polling one repo; created holds
\* the row ids its createEvent calls returned
IdlePoller == [pc |-> "idle", repo |-> 0, errs |-> 0, cur |-> NoCursor,
               releases |-> <<>>, etag |-> 0, lm |-> 0, todo |-> <<>>,
               release |-> 0, eventId |-> 0, created |-> {}, work |-> <<>>,
               nid |-> 0]

IdleSweep == [pc |-> "idle", todo |-> <<>>]

\* the (subscription, channel index) pairs sendReleaseNotifications creates
\* a notification for, in loop order
RECURSIVE InlineWork(_, _)
InlineWork(ss, release) ==
    IF ss = <<>> THEN <<>>
    ELSE LET s == Head(ss)
         IN (IF InlineFilter(release, subs[s].filters)
             THEN [i \in 1..Len(subs[s].verified) |-> <<s, i>>]
             ELSE <<>>) \o InlineWork(Tail(ss), release)

\* processEventMessage evaluating the filters itself, without a try/catch
\* per subscription: one filter that throws ends the fan-out of the event
ConsumerTasksAbortOnThrow(ss, eventId) ==
    IF \E x \in Range(ss) :
           ShouldNotify(events[eventId].kind, events[eventId].payload,
                        subs[x].filters) = "throw"
    THEN {}
    ELSE {[event_id |-> eventId, sub_id |-> s, ch |-> 1, nid |-> 0] :
             s \in {x \in Range(ss) :
                      /\ ShouldNotify(events[eventId].kind,
                                      events[eventId].payload,
                                      subs[x].filters) = "yes"
                      /\ subs[x].channels_json # <<>>}}

\* the processSubscription calls of processEventMessage that get past the
\* filter and have a channel to notify
ConsumerTasks(ss, eventId) ==
    {[event_id |-> eventId, sub_id |-> s, ch |-> 1, nid |-> 0] :
        s \in {x \in Range(ss) :
                 /\ ShouldNotify(events[eventId].kind, events[eventId].payload,
                                 subs[x].filters) = "yes"
                 /\ subs[x].channels_json # <<>>}}

\* the locals of a scheduled() invocation: the rows getReposForPolling
\* returned, the loop index i, and the repos whose pollRepo was called
IdleSched == [pc |-> "idle", minute |-> 0, selected |-> <<>>, i |-> 0,
              started |-> <<>>]

\* no cursor write was lost: their number, the new releases of the poll
\* that made the last one, and the number of that poll
NoLoss == [n |-> 0, ids |-> {}, poll |-> 0]

InitStores ==
    /\ outage = {}
    /\ sched = IdleSched
    /\ lost = NoLoss
    /\ now = TickMs
    /\ rels = <<>>
    /\ upEtag = 1
    /\ upLastMod = TickMs
    /\ cursor = [r \in Repos |-> NoCursor]
    /\ repos = [r \in Repos |-> [consecutive_errors |-> 0, last_polled_at |-> 0]]
    /\ events = <<>>
    /\ notifications = <<>>
    /\ queue = <<>>
    /\ tasks = {}
    /\ poller = [p \in Pollers |-> IdlePoller]
    /\ sweep = [s \in Sweepers |-> IdleSweep]
    /\ nPolls = 0
    /\ nSweeps = 0
    /\ fanned = {}
    /\ firstPollIds = {}
    /\ nmStreak = [r \in Repos |-> 0]

Init ==
    /\ lim = [rels |-> MaxRel, polls |-> MaxPolls, ticks |-> 0,
              sweeps |-> 0, pollers |-> 2]
    /\ variant \in {"queue", "inline"}
    /\ subs \in SubConfigs
    /\ InitStores

InitRetry ==
    /\ variant \in {"queue", "inline"}
    /\ lim = [rels |-> IF variant = "queue" THEN RetryRels ELSE RetryRels + 1,
              polls |-> IF variant = "queue" THEN RetryPolls ELSE RetryPolls + 1,
              ticks |-> MaxTicks, sweeps |-> MaxSweeps, pollers |-> 1]
    /\ subs \in SubConfigs
    /\ InitStores

\* the releases the fetch of an invocation returned that it takes for new
NewItems(p) ==
    Range(IF variant = "queue"
          THEN NewReleasesQueue(poller[p].releases, poller[p].cur.lastSeenId)
          ELSE NewReleasesInline(poller[p].releases, poller[p].cur.lastSeenId))

(* ------------------------- environment actions ------------------------- *)
Tick ==
    /\ now < (lim.ticks + 1) * TickMs
    /\ now' = now + TickMs
    /\ UNCHANGED <<config, lost, sched, upstream, cursor, repos, events, notifications,
                   queue, tasks, poller, sweep, nPolls, nSweeps, fanned,
                   firstPollIds, nmStreak>>

\* the upstream publishes a release, or saves a draft
Publish(k, d) ==
    /\ Len(rels) < lim.rels
    /\ rels' = Append(rels, [draft |-> d, prerelease |-> k.prerelease,
                             tag_name |-> k.tag_name, published_at |-> now])
    /\ upEtag' = upEtag + 1
    /\ upLastMod' = now
    /\ UNCHANGED <<config, lost, sched, now, cursor, repos, events, notifications, queue,
                   tasks, poller, sweep, nPolls, nSweeps, fanned,
                   firstPollIds, nmStreak>>

(* ------------------------------- poller -------------------------------- *)
\* scheduled(): getReposForPolling selects the repo; pollRepo starts and
\* pollReleases reads the cursor
Scheduled(p, r) ==
    /\ poller[p].pc = "idle"
    /\ p <= lim.pollers
    /\ \A q \in Pollers : q < p => poller[q].pc # "idle"
    /\ nPolls < lim.polls
    /\ DueForPolling(repos[r], now)
    /\ poller' = [poller EXCEPT ![p] =
                     [IdlePoller EXCEPT !.pc = "got", !.repo = r,
                                        !.errs = repos[r].consecutive_errors,
                                        !.cur = cursor[r]]]
    /\ nPolls' = nPolls + 1
    /\ UNCHANGED <<config, lost, sched, now, upstream, cursor, repos, events,
                   notifications, queue, tasks, sweep, nSweeps, fanned,
                   firstPollIds, nmStreak>>

\* github.getReleases throws; the catch of pollReleases bumps checkedAt of
\* an existing cursor and rethrows; pollRepo counts the failure
FetchFail(p) ==
    LET me == poller[p] IN
    /\ me.pc = "got"
    /\ cursor' = IF me.cur.present
                 THEN [cursor EXCEPT ![me.repo] = TouchState(me.cur, now)]
                 ELSE cursor
    /\ repos' = UpdateRepoPollingState(repos, me.repo, me.errs + 1, now)
    /\ poller' = [poller EXCEPT ![p] = IdlePoller]
    /\ nmStreak' = [nmStreak EXCEPT ![me.repo] = 0]
    /\ UNCHANGED <<config, lost, sched, now, upstream, events, notifications, queue, tasks,
                   sweep, nPolls, nSweeps, fanned, firstPollIds>>

\* a not-modified branch that writes checkedAt and loses the validators
NotModifiedStateNoEtag(currentState, t) ==
    [currentState EXCEPT !.present = TRUE, !.checkedAt = t, !.etag = 0,
                         !.lastModified = 0]

\* a not-modified branch that writes a new object without ...currentState
NotModifiedStateNoSpread(currentState, t) ==
    [present |-> TRUE, lastSeenId |-> "", etag |-> currentState.etag,
     lastModified |-> currentState.lastModified, checkedAt |-> t]

\* the cursor written by the not-modified branch
NotModifiedState(currentState, t) == TouchState(currentState, t)

\* result.isNotModified: only checkedAt is updated
FetchNotModified(p) ==
    LET me == poller[p] IN
    /\ me.pc = "got"
    /\ IsNotModified(me.cur)
    /\ cursor' = [cursor EXCEPT ![me.repo] = NotModifiedState(me.cur, now)]
    /\ repos' = UpdateRepoPollingState(repos, me.repo, 0, now)
    /\ poller' = [poller EXCEPT ![p] = IdlePoller]
    /\ nmStreak' = [nmStreak EXCEPT ![me.repo] = @ + 1]
    /\ UNCHANGED <<config, lost, sched, now, upstream, events, notifications, queue, tasks,
                   sweep, nPolls, nSweeps, fanned, firstPollIds>>

\* the loop over the new releases in the order they were fetched
ProcessingOrderAsFetched(newReleases) == newReleases

\* for (const release of newReleases.reverse()): the order of the loop
ProcessingOrder(newReleases) == Reverse(newReleases)

\* a 200 answer: drafts are skipped, an empty list only updates the cursor,
\* else the new releases are processed oldest first
FetchOk(p) ==
    LET me == poller[p]
        releases == SelectSeqBy(GetReleases,
                                {i \in 1..Len(rels) : ~rels[i].draft})
        newReleases == IF variant = "queue"
                       THEN NewReleasesQueue(releases, me.cur.lastSeenId)
                       ELSE NewReleasesInline(releases, me.cur.lastSeenId)
    IN
    /\ me.pc = "got"
    /\ ~IsNotModified(me.cur)
    /\ IF releases = <<>>
       THEN /\ cursor' = [cursor EXCEPT ![me.repo] =
                             EmptyState(me.cur, upEtag, upLastMod, now)]
            /\ repos' = UpdateRepoPollingState(repos, me.repo, 0, now)
            /\ poller' = [poller EXCEPT ![p] = IdlePoller]
            /\ UNCHANGED firstPollIds
       ELSE /\ poller' = [poller EXCEPT ![p] =
                             [me EXCEPT !.pc = "loop", !.releases = releases,
                                        !.etag = upEtag, !.lm = upLastMod,
                                        !.todo = ProcessingOrder(newReleases)]]
            /\ firstPollIds' = IF me.cur.present THEN firstPollIds
                               ELSE firstPollIds \cup Range(releases)
            /\ UNCHANGED <<cursor, repos>>
    /\ nmStreak' = [nmStreak EXCEPT ![me.repo] = 0]
    /\ UNCHANGED <<config, lost, sched, now, upstream, events, notifications, queue, tasks,
                   sweep, nPolls, nSweeps, fanned>>

\* one turn of the for loop over the new releases: db.createEvent, then
\* EVENTS.send (poller.ts) or the start of sendReleaseNotifications
\* (simple-poller.ts) when a row id came back
ProcessRelease(p) ==
    LET me == poller[p]
        id == Head(me.todo)
        res == CreateEvent(events, me.repo, "release", ToStr(id), Payload(id),
                           Payload(id).published_at \div 1000)
        ss == GetSubscriptionsForRepo(me.repo, "release")
        work == InlineWork(ss, Payload(id))
        made == IF res.id # 0 THEN me.created \cup {res.id} ELSE me.created
    IN
    /\ me.pc = "loop"
    /\ me.todo # <<>>
    /\ events' = res.events
    /\ IF variant = "queue"
       THEN /\ queue' = IF res.id # 0
                        THEN Append(queue, [repo_id |-> me.repo,
                                            kind |-> "release",
                                            external_id |-> ToStr(id)])
                        ELSE queue
            /\ poller' = [poller EXCEPT ![p] =
                             [me EXCEPT !.release = id, !.eventId = res.id,
                                        !.created = made,
                                        !.todo = Tail(me.todo)]]
            /\ UNCHANGED fanned
       ELSE /\ UNCHANGED queue
            /\ IF res.id # 0 /\ work # <<>>
               THEN /\ poller' = [poller EXCEPT ![p] =
                                     [me EXCEPT !.release = id,
                                                !.eventId = res.id,
                                                !.created = made,
                                                !.work = work,
                                                !.pc = "notify"]]
                    /\ UNCHANGED fanned
               ELSE /\ poller' = [poller EXCEPT ![p] =
                                     [me EXCEPT !.release = id,
                                                !.eventId = res.id,
                                                !.created = made,
                                                !.todo = Tail(me.todo)]]
                    /\ fanned' = IF res.id # 0
                                 THEN fanned \cup {<<res.id, s>> : s \in Range(ss)}
                                 ELSE fanned
    /\ UNCHANGED <<config, lost, sched, now, upstream, cursor, repos, notifications, tasks,
                   sweep, nPolls, nSweeps, firstPollIds, nmStreak>>

\* sendReleaseNotifications: db.createNotification for the next channel
InlineCreate(p) ==
    LET me == poller[p]
        w == Head(me.work)
    IN
    /\ me.pc = "notify"
    /\ notifications' = CreateNotification(notifications, me.eventId, w[1],
                                           subs[w[1]].verified[w[2]].type)
    /\ poller' = [poller EXCEPT ![p] =
                     [me EXCEPT !.pc = "deliver",
                                !.nid = Len(notifications) + 1]]
    /\ UNCHANGED <<config, lost, sched, now, upstream, cursor, repos, events, queue, tasks,
                   sweep, nPolls, nSweeps, fanned, firstPollIds, nmStreak>>

\* sendReleaseNotifications: the try block after db.createNotification
InlineDeliver(p) ==
    LET me == poller[p]
        w == Head(me.work)
        rest == Tail(me.work)
        ss == GetSubscriptionsForRepo(me.repo, "release")
    IN
    /\ me.pc = "deliver"
    /\ \E o \in InlineSend(subs[w[1]].verified[w[2]]) :
          notifications' =
              IF o = "skip" THEN notifications
              ELSE IF o = ""
                   THEN UpdateNotificationStatus(notifications, me.nid,
                                                 "sent", "", now)
                   ELSE UpdateNotificationStatus(notifications, me.nid,
                                                 "error", o, now)
    /\ IF rest = <<>>
       THEN /\ poller' = [poller EXCEPT ![p] =
                             [me EXCEPT !.pc = "loop", !.work = <<>>,
                                        !.nid = 0, !.todo = Tail(me.todo)]]
            /\ fanned' = fanned \cup {<<me.eventId, s>> : s \in Range(ss)}
       ELSE /\ poller' = [poller EXCEPT ![p] =
                             [me EXCEPT !.pc = "notify", !.work = rest,
                                        !.nid = 0]]
            /\ UNCHANGED fanned
    /\ UNCHANGED <<config, lost, sched, now, upstream, cursor, repos, events, queue, tasks,
                   sweep, nPolls, nSweeps, firstPollIds, nmStreak>>

\* the cursor advances after the loop; pollRepo resets the error count
FinishPoll(p) ==
    LET me == poller[p] IN
    /\ me.pc = "loop"
    /\ me.todo = <<>>
    /\ cursor' = [cursor EXCEPT ![me.repo] =
                     AdvancedState(me.releases, me.etag, me.lm, now)]
    /\ repos' = UpdateRepoPollingState(repos, me.repo, 0, now)
    /\ poller' = [poller EXCEPT ![p] = IdlePoller]
    /\ UNCHANGED <<config, lost, sched, now, upstream, events, notifications, queue, tasks,
                   sweep, nPolls, nSweeps, fanned, firstPollIds, nmStreak>>

(* --------------------------- queue consumer ---------------------------- *)
\* queue(): processEventMessage for the next message, which is then acked;
\* each processSubscription runs up to its first await
Consume ==
    LET m == Head(queue)
        ss == GetSubscriptionsForRepo(m.repo_id, m.kind)
        latest == GetEvents1(events, m.repo_id, m.kind)
    IN
    /\ queue # <<>>
    /\ queue' = Tail(queue)
    /\ \E e \in (IF latest = {} THEN {0} ELSE latest) :
          IF ss = <<>> \/ e = 0 \/ events[e].external_id # m.external_id
          THEN UNCHANGED <<tasks, fanned>>
          ELSE LET started == ConsumerTasks(ss, e) IN
               /\ tasks' = tasks \cup started
               /\ fanned' = fanned \cup
                     {<<e, s>> : s \in {x \in Range(ss) :
                          \A t \in started : t.sub_id # x}}
    /\ UNCHANGED <<config, lost, sched, now, upstream, cursor, repos, events, notifications,
                   poller, sweep, nPolls, nSweeps, firstPollIds, nmStreak>>

\* processSubscription: db.createNotification for the next channel
TaskCreate(t) ==
    /\ t.nid = 0
    /\ notifications' =
           CreateNotification(notifications, t.event_id, t.sub_id,
                              subs[t.sub_id].channels_json[t.ch].type)
    /\ tasks' = (tasks \ {t}) \cup {[t EXCEPT !.nid = Len(notifications) + 1]}
    /\ UNCHANGED <<config, lost, sched, now, upstream, cursor, repos, events, queue, poller,
                   sweep, nPolls, nSweeps, fanned, firstPollIds, nmStreak>>

\* processSubscription: sendNotification and the status update
TaskDeliver(t) ==
    /\ t.nid # 0
    /\ \E o \in SendNotification(subs[t.sub_id].channels_json[t.ch]) :
          notifications' =
              IF o = ""
              THEN UpdateNotificationStatus(notifications, t.nid, "sent", "", now)
              ELSE UpdateNotificationStatus(notifications, t.nid, "error", o, now)
    /\ IF t.ch < Len(subs[t.sub_id].channels_json)
       THEN /\ tasks' = (tasks \ {t}) \cup
                           {[t EXCEPT !.ch = t.ch + 1, !.nid = 0]}
            /\ UNCHANGED fanned
       ELSE /\ tasks' = tasks \ {t}
            /\ fanned' = fanned \cup {<<t.event_id, t.sub_id>>}
    /\ UNCHANGED <<config, lost, sched, now, upstream, cursor, repos, events, queue, poller,
                   sweep, nPolls, nSweeps, firstPollIds, nmStreak>>

(* ----------------------------- retry sweep ----------------------------- *)
\* retryFailedNotifications: the selection
SweepStart(s) ==
    LET sel == GetFailedNotifications(notifications, MaxAttempts, now) IN
    /\ sweep[s].pc = "idle"
    /\ \A q \in Sweepers : q < s => sweep[q].pc # "idle"
    /\ nSweeps < lim.sweeps
    /\ nSweeps' = nSweeps + 1
    /\ sweep' = [sweep EXCEPT ![s] =
                    IF sel = <<>> THEN IdleSweep
                    ELSE [pc |-> "run", todo |-> sel]]
    /\ UNCHANGED <<config, lost, sched, now, upstream, cursor, repos, events, notifications,
                   queue, tasks, poller, nPolls, fanned, firstPollIds, nmStreak>>

\* channels.find(c => c.type === notification.channel): 0 when not found
FindChannel(channels, type) ==
    LET hits == {i \in 1..Len(channels) : channels[i].type = type}
    IN IF hits = {} THEN 0 ELSE CHOOSE i \in hits : \A j \in hits : i <= j

\* retryFailedNotifications with one try/catch around the whole loop: the
\* first delivery that fails is recorded and ends the sweep
SweepStepAbortOnFailure(s) ==
    LET n == Head(sweep[s].todo)
        channels == subs[notifications[n].subscription_id].channels_json
        c == FindChannel(channels, notifications[n].channel)
        rest == Tail(sweep[s].todo)
    IN
    /\ sweep[s].pc = "run"
    /\ IF c = 0
       THEN /\ UNCHANGED notifications
            /\ sweep' = [sweep EXCEPT ![s] =
                            IF rest = <<>> THEN IdleSweep
                            ELSE [pc |-> "run", todo |-> rest]]
       ELSE \E o \in SendNotification(channels[c]) :
               IF o = ""
               THEN /\ notifications' =
                           UpdateNotificationStatus(notifications, n, "sent",
                                                    "", now)
                    /\ sweep' = [sweep EXCEPT ![s] =
                                    IF rest = <<>> THEN IdleSweep
                                    ELSE [pc |-> "run", todo |-> rest]]
               ELSE /\ notifications' =
                           UpdateNotificationStatus(notifications, n, "error",
                                                    o, now)
                    /\ sweep' = [sweep EXCEPT ![s] = IdleSweep]
    /\ UNCHANGED <<config, lost, sched, now, upstream, cursor, repos, events, queue, tasks,
                   poller, nPolls, nSweeps, fanned, firstPollIds, nmStreak>>

\* retryFailedNotifications: one turn of the loop
SweepStep(s) ==
    LET n == Head(sweep[s].todo)
        channels == subs[notifications[n].subscription_id].channels_json
        c == FindChannel(channels, notifications[n].channel)
        rest == Tail(sweep[s].todo)
    IN
    /\ sweep[s].pc = "run"
    /\ IF c = 0
       THEN UNCHANGED notifications
       ELSE \E o \in SendNotification(channels[c]) :
               notifications' =
                   IF o = ""
                   THEN UpdateNotificationStatus(notifications, n, "sent", "", now)
                   ELSE UpdateNotificationStatus(notifications, n, "error", o, now)
    /\ sweep' = [sweep EXCEPT ![s] =
                    IF rest = <<>> THEN IdleSweep
                    ELSE [pc |-> "run", todo |-> rest]]
    /\ UNCHANGED <<config, lost, sched, now, upstream, cursor, repos, events, queue, tasks,
                   poller, nPolls, nSweeps, fanned, firstPollIds, nmStreak>>

(* --------------------------- specifications ---------------------------- *)
\* polling and fan-out at one instant; scheduler invocations may overlap
Next ==
    \/ \E k \in ReleaseKinds : Publish(k, FALSE)
    \/ \E k \in {x \in ReleaseKinds : x.tag_name = "v1.0.0"} : Publish(k, TRUE)
    \/ \E p \in Pollers, r \in Repos : Scheduled(p, r)
    \/ \E p \in Pollers : FetchFail(p)
    \/ \E p \in Pollers : FetchNotModified(p)
    \/ \E p \in Pollers : FetchOk(p)
    \/ \E p \in Pollers : ProcessRelease(p)
    \/ \E p \in Pollers : InlineCreate(p)
    \/ \E p \in Pollers : InlineDeliver(p)
    \/ \E p \in Pollers : FinishPoll(p)
    \/ Consume
    \/ \E t \in tasks : TaskCreate(t)
    \/ \E t \in tasks : TaskDeliver(t)

Spec == Init /\ [][Next]_vars

\* one scheduler invocation at a time of stable releases, the clock, and
\* retry sweeps, which may overlap
NextRetry ==
    \/ Tick
    \/ \E k \in {x \in ReleaseKinds : x.tag_name = "v1.0.0"} : Publish(k, FALSE)
    \/ \E p \in Pollers, r \in Repos : Scheduled(p, r)
    \/ \E p \in Pollers : FetchFail(p)
    \/ \E p \in Pollers : FetchNotModified(p)
    \/ \E p \in Pollers : FetchOk(p)
    \/ \E p \in Pollers : ProcessRelease(p)
    \/ \E p \in Pollers : InlineCreate(p)
    \/ \E p \in Pollers : InlineDeliver(p)
    \/ \E p \in Pollers : FinishPoll(p)
    \/ Consume
    \/ \E t \in tasks : TaskCreate(t)
    \/ \E t \in tasks : TaskDeliver(t)
    \/ \E s \in Sweepers : SweepStart(s)
    \/ \E s \in Sweepers : SweepStep(s)

SpecRetry == InitRetry /\ [][NextRetry]_vars

(* ------------------------- several channels --------------------------- *)
\* SpecChannels: releases and scheduler invocations
ChanRels == 2
ChanPolls == 2

TelegramChannel2 == [type |-> "telegram", id |-> "43"]

\* a subscription with two channels of one kind, and one without a channel
TwoChannelSubs ==
    <<Subscription("unset", "", <<TelegramChannel, TelegramChannel2>>),
      Subscription("true", "", <<>>)>>

InitChannels ==
    /\ lim = [rels |-> ChanRels, polls |-> ChanPolls, ticks |-> 0,
              sweeps |-> 0, pollers |-> 1]
    /\ variant \in {"queue", "inline"}
    /\ subs = TwoChannelSubs
    /\ InitStores

\* polling and fan-out to a subscription with two telegram channels
SpecChannels == InitChannels /\ [][Next]_vars

(* ------------------------ several new releases ------------------------ *)
\* SpecOrder: releases and scheduler invocations
OrderRels == 3
OrderPolls == 3

\* one subscription that is notified of every release, one of none
OrderSubs ==
    <<Subscription("unset", "", <<TelegramChannel>>),
      Subscription("unset", SemverPattern, <<>>)>>

InitOrder ==
    /\ lim = [rels |-> OrderRels, polls |-> OrderPolls, ticks |-> 0,
              sweeps |-> 0, pollers |-> 2]
    /\ variant \in {"queue", "inline"}
    /\ subs = OrderSubs
    /\ InitStores

\* overlapping polls of an upstream that publishes stable releases, one or
\* more between two polls
NextOrder ==
    \/ \E k \in {x \in ReleaseKinds : x.tag_name = "v1.0.0"} : Publish(k, FALSE)
    \/ \E p \in Pollers, r \in Repos : Scheduled(p, r)
    \/ \E p \in Pollers : FetchFail(p)
    \/ \E p \in Pollers : FetchNotModified(p)
    \/ \E p \in Pollers : FetchOk(p)
    \/ \E p \in Pollers : ProcessRelease(p)
    \/ \E p \in Pollers : InlineCreate(p)
    \/ \E p \in Pollers : InlineDeliver(p)
    \/ \E p \in Pollers : FinishPoll(p)
    \/ Consume
    \/ \E t \in tasks : TaskCreate(t)
    \/ \E t \in tasks : TaskDeliver(t)

SpecOrder == InitOrder /\ [][NextOrder]_vars

(* --------------------------- database faults --------------------------- *)
\* SpecFault: releases and scheduler invocations
FaultRels == 2
FaultPolls == 3

\* the errors the INSERT of createEvent can raise: the violation of
\* UNIQUE(repo_id, kind, external_id), and any other failure of the database
UniqueError == "UNIQUE constraint failed: events.repo_id, events.kind, events.external_id"
DatabaseError == "D1_ERROR: database unavailable"

\* error.message.includes('UNIQUE constraint failed')
IsUniqueViolation(message) == message = UniqueError

\* a catch that answers null to every error
CreateEventCatchAll(message) == "null"

\* the catch of createEvent: null for a duplicate, else the error is rethrown
CreateEventCatch(message) ==
    IF IsUniqueViolation(message) THEN "null" ELSE "throw"

InitFault ==
    /\ lim = [rels |-> FaultRels, polls |-> FaultPolls, ticks |-> 0,
              sweeps |-> 0, pollers |-> 2]
    /\ variant \in {"queue", "inline"}
    /\ subs = OrderSubs
    /\ InitStores

\* one turn of the loop over the new releases whose INSERT fails for a
\* reason other than the constraint: no row is added; createEvent rethrows,
\* the catch of pollReleases bumps checkedAt of the cursor it read and
\* rethrows, and pollRepo counts the failure.  A catch that answered null
\* would go on with the next release as after a duplicate.
CreateEventFail(p) ==
    LET me == poller[p]
        id == Head(me.todo)
    IN
    /\ me.pc = "loop"
    /\ me.todo # <<>>
    /\ IF CreateEventCatch(DatabaseError) = "throw"
       THEN /\ cursor' = IF me.cur.present
                         THEN [cursor EXCEPT ![me.repo] = TouchState(me.cur, now)]
                         ELSE cursor
            /\ repos' = UpdateRepoPollingState(repos, me.repo, me.errs + 1, now)
            /\ poller' = [poller EXCEPT ![p] = IdlePoller]
       ELSE /\ poller' = [poller EXCEPT ![p] =
                             [me EXCEPT !.release = id, !.eventId = 0,
                                        !.todo = Tail(me.todo)]]
            /\ UNCHANGED <<cursor, repos>>
    /\ UNCHANGED <<config, lost, sched, now, upstream, events, notifications, queue,
                   tasks, sweep, nPolls, nSweeps, fanned, firstPollIds, nmStreak>>

\* overlapping polls whose inserts into the events table may fail
NextFault ==
    \/ NextOrder
    \/ \E p \in Pollers : CreateEventFail(p)

SpecFault == InitFault /\ [][NextFault]_vars

(* ----------------------------- sweep limit ----------------------------- *)
\* SpecSweep: the failed notifications beyond one page of the selection, the
\* clock ticks and the retry sweeps started
SweepExtra == 1
SweepTicks == 2
SweepRuns == 2

\* the notifications that failed on a channel no delivery is implemented for
SweepRows == FailedLimit + SweepExtra

\* one subscription by e-mail notified of every release, one by telegram
\* that excludes prereleases
SweepSubs ==
    <<Subscription("unset", "", <<EmailChannel>>),
      Subscription("false", "", <<TelegramChannel>>)>>

\* the releases of the upstream: the first two and the last are stable
SweepRelease(i) ==
    IF i \in {1, 2, SweepRows}
    THEN [draft |-> FALSE, prerelease |-> FALSE, tag_name |-> "v1.0.0",
          published_at |-> TickMs]
    ELSE [draft |-> FALSE, prerelease |-> TRUE, tag_name |-> "v2.0.0-rc1",
          published_at |-> TickMs]

\* a notifications row after its fan-out
SweepNotification(eventId, subId, channel, status, attempts, error, errorAt, sentAt) ==
    [event_id |-> eventId, subscription_id |-> subId,
     channel |-> channel, status |-> status, attempts |-> attempts,
     last_error |-> error, last_error_at |-> errorAt, sent_at |-> sentAt]

\* every release was polled and fanned out: the e-mail deliveries failed
\* once, the later events first; of the telegram notifications one was
\* sent, one is exhausted and one is waiting for its delivery
InitSweep ==
    /\ lim = [rels |-> SweepRows, polls |-> 0, ticks |-> 4 + SweepTicks,
              sweeps |-> SweepRuns, pollers |-> 0]
    /\ outage = {}
    /\ sched = IdleSched
    /\ lost = NoLoss
    /\ variant = "queue"
    /\ subs = SweepSubs
    /\ now = 5 * TickMs
    /\ rels = [i \in 1..SweepRows |-> SweepRelease(i)]
    /\ upEtag = SweepRows + 1
    /\ upLastMod = TickMs
    /\ cursor = [r \in Repos |->
                    [present |-> TRUE, lastSeenId |-> ToStr(SweepRows),
                     etag |-> SweepRows + 1, lastModified |-> TickMs,
                     checkedAt |-> 4 * TickMs]]
    /\ repos = [r \in Repos |-> [consecutive_errors |-> 0,
                                 last_polled_at |-> 4 * TickMs]]
    /\ events = [i \in 1..SweepRows |->
                    [repo_id |-> 1, kind |-> "release",
                     external_id |-> ToStr(i), payload |-> Payload(i),
                     occurred_at |-> TickMs \div 1000]]
    /\ notifications =
           [i \in 1..SweepRows |->
               SweepNotification(i, 1, "email", "error", 1,
                                 "Email notifications not yet implemented",
                                 4 * TickMs + (SweepRows - i), 0)]
           \o <<SweepNotification(1, 2, "telegram", "sent", 1, "", 0,
                                  4 * TickMs),
                SweepNotification(2, 2, "telegram", "error", MaxAttempts,
                                  "Telegram API error", 4 * TickMs, 0),
                SweepNotification(SweepRows, 2, "telegram", "queued", 0, "",
                                  0, 0)>>
    /\ queue = <<>>
    /\ tasks = {[event_id |-> SweepRows, sub_id |-> 2, ch |-> 1,
                 nid |-> SweepRows + 3]}
    /\ poller = [p \in Pollers |-> IdlePoller]
    /\ sweep = [s \in Sweepers |-> IdleSweep]
    /\ nPolls = 0
    /\ nSweeps = 0
    /\ fanned = {<<e, s>> : e \in 1..SweepRows, s \in SubIds}
                    \ {<<SweepRows, 2>>}
    /\ firstPollIds = {1}
    /\ nmStreak = [r \in Repos |-> 0]

\* retry sweeps, one at a time, over more failed notifications than one
\* selection returns, while the clock advances and a fan-out ends
NextSweep ==
    \/ Tick
    \/ \E t \in tasks : TaskDeliver(t)
    \/ SweepStart(1)
    \/ SweepStep(1)

SpecSweep == InitSweep /\ [][NextSweep]_vars

(* -------------------------- failure isolation -------------------------- *)
\* SpecIsolation: the clock ticks and the retry sweeps started
IsolationTicks == 2
IsolationSweeps == 2

\* a subscription with a telegram and an e-mail channel, and one with an
\* e-mail channel
IsolationSubs ==
    <<Subscription("unset", "", <<TelegramChannel, EmailChannel>>),
      Subscription("unset", "", <<EmailChannel>>)>>

InitIsolation ==
    /\ variant \in {"queue", "inline"}
    /\ lim = [rels |-> IF variant = "queue" THEN RetryRels ELSE RetryRels + 1,
              polls |-> IF variant = "queue" THEN RetryPolls ELSE RetryPolls + 1,
              ticks |-> IsolationTicks, sweeps |-> IsolationSweeps,
              pollers |-> 1]
    /\ subs = IsolationSubs
    /\ InitStores

\* the fan-out of one event to several channels and subscriptions, some of
\* whose deliveries fail, and the retry sweeps over the failed notifications
SpecIsolation == InitIsolation /\ [][NextRetry]_vars

(* --------------------------- lost cursor write -------------------------- *)
\* SpecLost: releases, scheduler invocations, and cursor writes that do not
\* take effect
LostRels == 3
LostPolls == 3
LostWrites == 1

InitLost ==
    /\ lim = [rels |-> LostRels, polls |-> LostPolls, ticks |-> 0,
              sweeps |-> 0, pollers |-> 1, lost |-> LostWrites]
    /\ variant \in {"queue", "inline"}
    /\ subs = OrderSubs
    /\ InitStores

\* the end of a poll whose POLL_STATE.put after the loop does not take
\* effect: the next read of the key returns the cursor as it was; pollRepo
\* records the success all the same
FinishPollLost(p) ==
    LET me == poller[p] IN
    /\ me.pc = "loop"
    /\ me.todo = <<>>
    /\ lost.n < lim.lost
    /\ lost' = [n |-> lost.n + 1, ids |-> NewItems(p), poll |-> nPolls]
    /\ repos' = UpdateRepoPollingState(repos, me.repo, 0, now)
    /\ poller' = [poller EXCEPT ![p] = IdlePoller]
    /\ UNCHANGED <<config, sched, now, upstream, cursor, events, notifications,
                   queue, tasks, sweep, nPolls, nSweeps, fanned, firstPollIds,
                   nmStreak>>

\* one scheduler invocation at a time, one of whose cursor writes is lost
NextLost ==
    \/ NextOrder
    \/ \E p \in Pollers : FinishPollLost(p)

SpecLost == InitLost /\ [][NextLost]_vars

(* ------------------------------ scheduler ------------------------------ *)
\* SpecSched: the UTC minute of the invocation, and the repos of its shard
\* beyond one full batch
SchedMinute == 1
ExtraRepos == 1

ShardCount == 60
PollLimit == 100
BatchSizeQueue == 10
BatchSizeInline == 5

\* const batchSize of scheduled()
BatchSize == IF variant = "queue" THEN BatchSizeQueue ELSE BatchSizeInline

\* the ids of the repos of the invocation's shard, in rowid order, and of a
\* repo of the next shard
ShardRepos == [k \in 1..(BatchSize + ExtraRepos) |->
                  SchedMinute + ShardCount * (k - 1)]
OtherRepo == SchedMinute + 1
SchedRepos == Range(ShardRepos) \cup {OtherRepo}

\* repos rows: never polled; at the error ceiling and polled within the
\* cool-down; over the ceiling and polled before the cool-down
Healthy == [consecutive_errors |-> 0, last_polled_at |-> 0]
FailingRecent(t) == [consecutive_errors |-> MaxRepoErrors,
                     last_polled_at |-> t - TickMs]
FailingOld(t) == [consecutive_errors |-> MaxRepoErrors + 1,
                  last_polled_at |-> t - 2 * TickMs]
HealthRows(t) == {Healthy, FailingRecent(t), FailingOld(t)}

\* the cursor of a repo polled before, whose upstream had no release
PolledCursor(t) == [present |-> TRUE, lastSeenId |-> "", etag |-> 1,
                    lastModified |-> TickMs, checkedAt |-> t]

\* the upstream outages of an invocation
Outages ==
    IF variant = "inline" THEN SUBSET Range(ShardRepos)
    ELSE {{}, {ShardRepos[1]}, {ShardRepos[2], ShardRepos[Len(ShardRepos)]},
          Range(ShardRepos)}

\* ids of S ordered by last_polled_at ASC NULLS FIRST (ties by rowid)
ByLastPolled(rs, S) ==
    LET Before(i, j) ==
            \/ rs[i].last_polled_at < rs[j].last_polled_at
            \/ rs[i].last_polled_at = rs[j].last_polled_at /\ i < j
        top == IF S = {} THEN 0 ELSE CHOOSE m \in S : \A j \in S : j <= m
        byRowid == SelectSeq([i \in 1..top |-> i], LAMBDA i : i \in S)
    IN SortSeq(byRowid, Before)

\* db.getReposForPolling(minute) at time t: the rows, as read
GetReposForPolling(rs, minute, t) ==
    LET sel == {r \in DOMAIN rs : /\ r % ShardCount = minute
                                  /\ DueForPolling(rs[r], t)}
        ord == ByLastPolled(rs, sel)
        n == IF Len(ord) < PollLimit THEN Len(ord) ELSE PollLimit
    IN [k \in 1..n |-> [id |-> ord[k],
                        consecutive_errors |-> rs[ord[k]].consecutive_errors]]

\* repos.slice(i, batchSize), taking the second argument for a length
BatchSliceByLength(repoList, i, batchSize) ==
    {k \in 1..Len(repoList) : i < k /\ k <= batchSize}

\* repos.slice(i, i + batchSize): the indices of the batch
BatchSlice(repoList, i, batchSize) ==
    {k \in 1..Len(repoList) : i < k /\ k <= i + batchSize}

InitSched ==
    /\ variant \in {"queue", "inline"}
    /\ lim = [rels |-> 0, polls |-> 0, ticks |-> 0, sweeps |-> 0, pollers |-> 0]
    /\ outage \in Outages
    /\ sched = IdleSched
    /\ lost = NoLoss
    /\ subs = <<>>
    /\ now = 3 * TickMs
    /\ rels = <<>>
    /\ upEtag = 1
    /\ upLastMod = TickMs
    /\ \E first \in HealthRows(now), other \in HealthRows(now) :
          repos = [r \in SchedRepos |->
                      IF r = ShardRepos[1] THEN first
                      ELSE IF r = OtherRepo THEN other
                      ELSE Healthy]
    /\ cursor = [r \in SchedRepos |->
                    IF repos[r].last_polled_at = 0 THEN NoCursor
                    ELSE PolledCursor(repos[r].last_polled_at)]
    /\ events = <<>>
    /\ notifications = <<>>
    /\ queue = <<>>
    /\ tasks = {}
    /\ poller = [p \in 1..Cardinality(SchedRepos) |-> IdlePoller]
    /\ sweep = [s \in Sweepers |-> IdleSweep]
    /\ nPolls = 0
    /\ nSweeps = 0
    /\ fanned = {}
    /\ firstPollIds = {}
    /\ nmStreak = [r \in SchedRepos |-> 0]

\* scheduled(): the minute shard and db.getReposForPolling
SchedStart ==
    /\ sched = IdleSched
    /\ sched' = [pc |-> "run", minute |-> SchedMinute,
                 selected |-> GetReposForPolling(repos, SchedMinute, now),
                 i |-> 0, started |-> <<>>]
    /\ UNCHANGED <<config, lost, now, upstream, cursor, repos, events, notifications,
                   queue, tasks, poller, sweep, nPolls, nSweeps, fanned,
                   firstPollIds, nmStreak>>

\* scheduled() with Promise.allSettled given the promises of the polls: a
\* batch is started when every poll started before has settled
SchedBatchAwaited ==
    LET batch == BatchSlice(sched.selected, sched.i, BatchSize) IN
    /\ sched.pc = "run"
    /\ sched.i < Len(sched.selected)
    /\ \A p \in DOMAIN poller : poller[p].pc = "idle"
    /\ poller' = [p \in DOMAIN poller |->
                     IF p \in batch
                     THEN [IdlePoller EXCEPT
                              !.pc = "got",
                              !.repo = sched.selected[p].id,
                              !.errs = sched.selected[p].consecutive_errors,
                              !.cur = cursor[sched.selected[p].id]]
                     ELSE poller[p]]
    /\ sched' = [sched EXCEPT
                    !.i = @ + BatchSize,
                    !.started = @ \o [k \in 1..Cardinality(batch) |->
                                         sched.selected[sched.i + k].id]]
    /\ UNCHANGED <<config, lost, now, upstream, cursor, repos, events, notifications,
                   queue, tasks, sweep, nPolls, nSweeps, fanned, firstPollIds,
                   nmStreak>>

\* one turn of the batch loop: batch.map calls pollRepo for every repo of
\* the batch, each running up to the read of its cursor; ctx.waitUntil
\* returns undefined, so Promise.allSettled has no promise to wait for
SchedBatch ==
    LET batch == BatchSlice(sched.selected, sched.i, BatchSize) IN
    /\ sched.pc = "run"
    /\ sched.i < Len(sched.selected)
    /\ poller' = [p \in DOMAIN poller |->
                     IF p \in batch
                     THEN [IdlePoller EXCEPT
                              !.pc = "got",
                              !.repo = sched.selected[p].id,
                              !.errs = sched.selected[p].consecutive_errors,
                              !.cur = cursor[sched.selected[p].id]]
                     ELSE poller[p]]
    /\ sched' = [sched EXCEPT
                    !.i = @ + BatchSize,
                    !.started = @ \o [k \in 1..Cardinality(batch) |->
                                         sched.selected[sched.i + k].id]]
    /\ UNCHANGED <<config, lost, now, upstream, cursor, repos, events, notifications,
                   queue, tasks, sweep, nPolls, nSweeps, fanned, firstPollIds,
                   nmStreak>>

\* the loop ends and scheduled() returns
SchedReturn ==
    /\ sched.pc = "run"
    /\ sched.i >= Len(sched.selected)
    /\ sched' = [sched EXCEPT !.pc = "returned"]
    /\ UNCHANGED <<config, lost, now, upstream, cursor, repos, events, notifications,
                   queue, tasks, poller, sweep, nPolls, nSweeps, fanned,
                   firstPollIds, nmStreak>>

\* one scheduled() invocation over a shard of more than one batch, whose
\* upstreams have no release; the fetches of the repos in outage fail
NextSched ==
    \/ SchedStart
    \/ SchedBatch
    \/ SchedReturn
    \/ \E p \in DOMAIN poller : poller[p].repo \in outage /\ FetchFail(p)
    \/ \E p \in DOMAIN poller : poller[p].repo \notin outage /\ FetchNotModified(p)
    \/ \E p \in DOMAIN poller : poller[p].repo \notin outage /\ FetchOk(p)

SpecSched == InitSched /\ [][NextSched]_vars

(* --------------------------- listing failure --------------------------- *)
\* scheduled() without the try/catch around its body: the error of
\* getReposForPolling leaves the handler
ScheduledNoCatch(error) == "thrown"

\* the catch of scheduled(): the error is logged and the handler returns
ScheduledCatch(error) == "returned"

\* scheduled(): db.getReposForPolling rejects; no repo is selected and the
\* batch loop is never entered
SchedListFail ==
    /\ sched = IdleSched
    /\ sched' = [IdleSched EXCEPT !.pc = ScheduledCatch(DatabaseError),
                                  !.minute = SchedMinute]
    /\ UNCHANGED <<config, lost, now, upstream, cursor, repos, events,
                   notifications, queue, tasks, poller, sweep, nPolls, nSweeps,
                   fanned, firstPollIds, nmStreak>>

\* one scheduled() invocation whose listing of the repos may fail
NextListing ==
    \/ NextSched
    \/ SchedListFail

SpecListing == InitSched /\ [][NextListing]_vars

(* ------------------------- re-probing of a shard ----------------------- *)
\* SpecProbe: the repos of the shard beyond two full selections, and the
\* invocations of the shard's minute after the first
ProbeExtra == 1
ProbeAgain == 2

\* the healthy repos of the shard, none of them polled yet, in rowid order,
\* and the failing repo, which has the greatest rowid
ProbeOthers == 2 * PollLimit + ProbeExtra
ProbeRepo(k) == SchedMinute + ShardCount * (k - 1)
ProbeFailing == ProbeRepo(ProbeOthers + 1)
ProbeRepos == {ProbeRepo(k) : k \in 1..(ProbeOthers + 1)}

\* a shard of more repos than two invocations select; one repo is at the
\* error ceiling and was polled within the cool-down, and its upstream is
\* still down
InitProbe ==
    /\ variant \in {"queue", "inline"}
    /\ lim = [rels |-> 0, polls |-> ProbeAgain, ticks |-> 0, sweeps |-> 0,
              pollers |-> 0]
    /\ outage = {ProbeFailing}
    /\ sched = IdleSched
    /\ lost = NoLoss
    /\ subs = <<>>
    /\ now = 3 * TickMs
    /\ rels = <<>>
    /\ upEtag = 1
    /\ upLastMod = TickMs
    /\ repos = [r \in ProbeRepos |->
                   IF r = ProbeFailing THEN FailingRecent(now) ELSE Healthy]
    /\ cursor = [r \in ProbeRepos |->
                    IF repos[r].last_polled_at = 0 THEN NoCursor
                    ELSE PolledCursor(repos[r].last_polled_at)]
    /\ events = <<>>
    /\ notifications = <<>>
    /\ queue = <<>>
    /\ tasks = {}
    /\ poller = [p \in 1..PollLimit |-> IdlePoller]
    /\ sweep = [s \in Sweepers |-> IdleSweep]
    /\ nPolls = 0
    /\ nSweeps = 0
    /\ fanned = {}
    /\ firstPollIds = {}
    /\ nmStreak = [r \in ProbeRepos |-> 0]

\* the polls of an invocation read and write the rows and keys of their own
\* repo only, so their steps commute: they are taken in the order the polls
\* were started, after the batch loop
ProbeTurn(p) ==
    /\ sched.pc = "returned"
    /\ \A q \in DOMAIN poller : q < p => poller[q].pc = "idle"

\* the trigger fires for the minute of the shard again, one tick after the
\* invocation before, whose polls have settled
SchedAgain ==
    /\ sched.pc = "returned"
    /\ \A p \in DOMAIN poller : poller[p].pc = "idle"
    /\ nPolls < lim.polls
    /\ nPolls' = nPolls + 1
    /\ now' = now + TickMs
    /\ sched' = IdleSched
    /\ UNCHANGED <<config, lost, upstream, cursor, repos, events, notifications,
                   queue, tasks, poller, sweep, nSweeps, fanned, firstPollIds,
                   nmStreak>>

\* repeated invocations for one minute shard
NextProbe ==
    \/ SchedStart
    \/ SchedBatch
    \/ SchedReturn
    \/ SchedAgain
    \/ \E p \in DOMAIN poller :
          ProbeTurn(p) /\ poller[p].repo \in outage /\ FetchFail(p)
    \/ \E p \in DOMAIN poller :
          ProbeTurn(p) /\ poller[p].repo \notin outage /\ FetchNotModified(p)
    \/ \E p \in DOMAIN poller :
          ProbeTurn(p) /\ poller[p].repo \notin outage /\ FetchOk(p)

SpecProbe == InitProbe /\ [][NextProbe]_vars

\* the trigger keeps firing and every fetch started gets its answer
SpecProbeLive == SpecProbe /\ WF_vars(NextProbe)

(* -------------------------- removed releases --------------------------- *)
\* SpecRetract: releases and scheduler invocations
RetractRels == 2
RetractPolls == 3

InitRetract ==
    /\ lim = [rels |-> RetractRels, polls |-> RetractPolls, ticks |-> 0,
              sweeps |-> 0, pollers |-> 1]
    /\ variant \in {"queue", "inline"}
    /\ subs = OrderSubs
    /\ InitStores

\* the upstream deletes a published release, or turns it back into a draft:
\* either way getReleases no longer returns it, and the validators of the
\* page change
Retract(i) ==
    /\ ~rels[i].draft
    /\ rels' = [rels EXCEPT ![i].draft = TRUE]
    /\ upEtag' = upEtag + 1
    /\ upLastMod' = now
    /\ UNCHANGED <<config, lost, sched, now, cursor, repos, events, notifications,
                   queue, tasks, poller, sweep, nPolls, nSweeps, fanned,
                   firstPollIds, nmStreak>>

\* one scheduler invocation at a time of an upstream that publishes and
\* removes releases
NextRetract ==
    \/ NextOrder
    \/ \E i \in 1..Len(rels) : Retract(i)

SpecRetract == InitRetract /\ [][NextRetract]_vars

\* one scheduler invocation at a time of an upstream that publishes stable
\* releases
SpecSerial == InitRetract /\ [][NextOrder]_vars

(* --------------------------- fan-out faults ---------------------------- *)
\* SpecFanFault: the same for poller.ts (simple-poller.ts gets one more of
\* each, its first poll only sets the baseline): releases and scheduler
\* invocations
FanRels == 1
FanPolls == 2

InitFanFault ==
    /\ variant \in {"queue", "inline"}
    /\ lim = [rels |-> IF variant = "queue" THEN FanRels ELSE FanRels + 1,
              polls |-> IF variant = "queue" THEN FanPolls ELSE FanPolls + 1,
              ticks |-> 0, sweeps |-> 0, pollers |-> 1]
    /\ subs = OrderSubs
    /\ InitStores

\* one turn of the loop over the new releases in which createEvent inserts
\* the row and the fan-out then fails before any notification is created:
\* EVENTS.send rejects (poller.ts), or getSubscriptionsForRepo rejects in
\* sendReleaseNotifications (simple-poller.ts).  The error leaves the loop,
\* the catch of pollReleases bumps checkedAt of the cursor it read and
\* rethrows, and pollRepo counts the failure.
FanOutFail(p) ==
    LET me == poller[p]
        id == Head(me.todo)
        res == CreateEvent(events, me.repo, "release", ToStr(id), Payload(id),
                           Payload(id).published_at \div 1000)
    IN
    /\ me.pc = "loop"
    /\ me.todo # <<>>
    /\ res.id # 0
    /\ events' = res.events
    /\ cursor' = IF me.cur.present
                 THEN [cursor EXCEPT ![me.repo] = TouchState(me.cur, now)]
                 ELSE cursor
    /\ repos' = UpdateRepoPollingState(repos, me.repo, me.errs + 1, now)
    /\ poller' = [poller EXCEPT ![p] = IdlePoller]
    /\ UNCHANGED <<config, lost, sched, now, upstream, notifications, queue,
                   tasks, sweep, nPolls, nSweeps, fanned, firstPollIds, nmStreak>>

\* one scheduler invocation at a time whose fan-out of a new event may fail
NextFanFault ==
    \/ NextOrder
    \/ \E p \in Pollers : FanOutFail(p)

SpecFanFault == InitFanFault /\ [][NextFanFault]_vars

(* ------------------------- releases over time -------------------------- *)
\* SpecTimed: releases, scheduler invocations and clock ticks
TimedRels == 2
TimedPolls == 2
TimedTicks == 2

InitTimed ==
    /\ lim = [rels |-> TimedRels, polls |-> TimedPolls, ticks |-> TimedTicks,
              sweeps |-> 0, pollers |-> 1]
    /\ variant \in {"queue", "inline"}
    /\ subs = OrderSubs
    /\ InitStores

\* one scheduler invocation at a time of an upstream that publishes stable
\* releases at different times
NextTimed ==
    \/ Tick
    \/ NextOrder

SpecTimed == InitTimed /\ [][NextTimed]_vars

(* ----------------------- faults inside the loop ------------------------ *)
\* one scheduler invocation at a time; the insert of an event or its
\* fan-out may fail
NextLoopFault ==
    \/ NextOrder
    \/ \E p \in Pollers : CreateEventFail(p)
    \/ \E p \in Pollers : FanOutFail(p)

SpecLoopFault == InitRetract /\ [][NextLoopFault]_vars

(* -------------------------- verified channels -------------------------- *)
\* SpecVerified: the clock ticks and the retry sweeps started
VerifiedTicks == 2
VerifiedSweeps == 2

\* a subscription made by the telegram bot: channels_json is [] and the
\* telegram channel is linked to it by subscription_channels; and a
\* subscription made through the API with an e-mail channel
VerifiedSubs ==
    <<[Subscription("false", "", <<TelegramChannel>>) EXCEPT !.channels_json = <<>>],
      Subscription("unset", "", <<EmailChannel>>)>>

InitVerified ==
    /\ variant \in {"queue", "inline"}
    /\ lim = [rels |-> IF variant = "queue" THEN RetryRels ELSE RetryRels + 1,
              polls |-> IF variant = "queue" THEN RetryPolls ELSE RetryPolls + 1,
              ticks |-> VerifiedTicks, sweeps |-> VerifiedSweeps,
              pollers |-> 1]
    /\ subs = VerifiedSubs
    /\ InitStores

\* the fan-out to a subscription whose channel is a verified channel, and
\* the retry sweeps over the notifications that failed
SpecVerified == InitVerified /\ [][NextRetry]_vars

(* ------------------------- drafts published later ---------------------- *)
\* SpecDraft: releases and scheduler invocations
DraftRels == 3
DraftPolls == 3

\* the tag under which the upstream of SpecDraft saves its drafts
DraftTag == "nightly"

InitDraft ==
    /\ lim = [rels |-> DraftRels, polls |-> DraftPolls, ticks |-> 0,
              sweeps |-> 0, pollers |-> 1]
    /\ variant \in {"queue", "inline"}
    /\ subs = OrderSubs
    /\ InitStores

\* the upstream publishes a draft: the release keeps the id it got when
\* the draft was saved, getReleases returns it from now on, and the
\* validators of the page change
PublishDraft(i) ==
    /\ rels[i].draft
    /\ rels' = [rels EXCEPT ![i].draft = FALSE, ![i].published_at = now]
    /\ upEtag' = upEtag + 1
    /\ upLastMod' = now
    /\ UNCHANGED <<config, lost, sched, now, cursor, repos, events, notifications,
                   queue, tasks, poller, sweep, nPolls, nSweeps, fanned,
                   firstPollIds, nmStreak>>

\* one scheduler invocation at a time of an upstream that publishes stable
\* releases, saves drafts and publishes them later
NextDraft ==
    \/ NextOrder
    \/ \E k \in {x \in ReleaseKinds : x.tag_name = DraftTag} : Publish(k, TRUE)
    \/ \E i \in 1..Len(rels) : PublishDraft(i)

SpecDraft == InitDraft /\ [][NextDraft]_vars

(* ------------------------------ properties ----------------------------- *)
EventKey(e) == <<e.repo_id, e.kind, e.external_id>>

\* the rows of the events table that hold a triple
EventRows(repoId, kind, externalId) ==
    {i \in 1..Len(events) : EventKey(events[i]) = <<repoId, kind, externalId>>}

\* the rows of the notifications table of an event and a subscription
NotificationsFor(e, s) ==
    {n \in 1..Len(notifications) :
        /\ notifications[n].event_id = e
        /\ notifications[n].subscription_id = s}

\* C1: the events table holds at most one row per (repo_id, kind,
\* external_id), also when scheduler invocations overlap: after a createEvent
\* call the triple has exactly one row, a row id returned is the id of that
\* row, and no row id is returned to two invocations (the others got null
\* and added nothing).
C1_OneEventPerTriple ==
    /\ \A i, j \in 1..Len(events) :
          EventKey(events[i]) = EventKey(events[j]) => i = j
    /\ \A p \in Pollers :
          poller[p].release # 0 =>
              LET rows == EventRows(poller[p].repo, "release",
                                    ToStr(poller[p].release))
              IN /\ Cardinality(rows) = 1
                 /\ poller[p].eventId # 0 => rows = {poller[p].eventId}
    /\ \A p, q \in Pollers :
          p # q => poller[p].created \cap poller[q].created = {}

\* two overlapping invocations inserted the same triple: one holds the row
\* id, the other was answered null
C1_Witness ==
    \E p, q \in Pollers :
        /\ p # q
        /\ poller[p].release # 0
        /\ poller[p].eventId = 0
        /\ \E e \in poller[q].created :
              events[e].external_id = ToStr(poller[p].release)

\* C2: a poll that found no stored cursor and fetched a non-empty list puts
\* no message on the EVENTS queue and creates no notification, and the cursor
\* it stores has lastSeenId equal to the newest fetched item.
C2_FirstPollSilent ==
    [][\A p \in Pollers :
          (/\ ~poller[p].cur.present
           /\ poller[p].pc = "loop"
           /\ poller'[p] # poller[p]) =>
              /\ queue' = queue
              /\ notifications' = notifications
              /\ poller'[p].pc = "idle" =>
                    cursor'[poller[p].repo].lastSeenId =
                        ToStr(poller[p].releases[1])]_vars

\* the fetched items newer than the cursor the invocation read
NewerThanCursor(p) ==
    {i \in Range(poller[p].releases) : i > ParseInt(poller[p].cur.lastSeenId)}

\* a simple-poller.ts invocation that read a cursor with a last seen id has
\* processed every new release of a modified fetch
PollDone(p) ==
    /\ variant = "inline"
    /\ poller[p].pc = "loop"
    /\ poller[p].todo = <<>>
    /\ poller[p].cur.lastSeenId # ""

\* the external ids of the events an invocation created
CreatedIds(p) == {events[e].external_id : e \in poller[p].created}

\* one notification per channel of every subscription whose filter matches
\* the event, none for the other subscriptions
FanOutExact(e) ==
    \A s \in SubIds :
        IF ShouldNotifyRelease(events[e].payload, subs[s].filters)
        THEN /\ Cardinality(NotificationsFor(e, s)) = Len(subs[s].verified)
             /\ \A c \in 1..Len(subs[s].verified) :
                   \E n \in NotificationsFor(e, s) :
                       notifications[n].channel = subs[s].verified[c].type
        ELSE NotificationsFor(e, s) = {}

\* C3 as stated: the poll creates an event for exactly the fetched items
\* with id greater than L, and one notification per matching subscription
\* and channel for each event created.
C3_ExactlyNewItems ==
    \A p \in Pollers :
        PollDone(p) =>
            /\ CreatedIds(p) = {ToStr(i) : i \in NewerThanCursor(p)}
            /\ \A e \in poller[p].created : FanOutExact(e)

\* C3: the events a poll of simple-poller.ts creates are fetched non-draft
\* items with id greater than L (an item already recorded, by an overlapping
\* invocation, is not created again); after the poll every fetched item
\* with id greater than L has exactly one event; each event the poll created
\* has exactly one notification per matching subscription and channel.
C3_NewItemsOnce ==
    \A p \in Pollers :
        PollDone(p) =>
            /\ CreatedIds(p) \subseteq {ToStr(i) : i \in NewerThanCursor(p)}
            /\ \A i \in NewerThanCursor(p) :
                  Cardinality(EventRows(poller[p].repo, "release", ToStr(i))) = 1
            /\ \A e \in poller[p].created :
                  /\ ~events[e].payload.draft
                  /\ FanOutExact(e)

\* a poll that read a cursor has created an event and notified for it
C3_Witness ==
    \E p \in Pollers :
        /\ PollDone(p)
        /\ \E e \in poller[p].created, s \in SubIds : NotificationsFor(e, s) # {}

\* C4: every poll cycle of a run of consecutive not-modified answers creates
\* no event (and queues and notifies nothing) and rewrites the cursor with
\* the etag the upstream has just confirmed and the time of the check.
C4_NotModifiedCycles ==
    [][\A r \in Repos :
          nmStreak'[r] > nmStreak[r] =>
              /\ events' = events
              /\ queue' = queue
              /\ notifications' = notifications
              /\ cursor'[r].present
              /\ cursor'[r].etag # 0
              /\ cursor'[r].etag = upEtag
              /\ cursor'[r].checkedAt = now]_vars

\* two not-modified cycles in a row
C4_Witness ==
    \E r \in Repos : nmStreak[r] >= 2 /\ cursor[r].etag = upEtag

\* a subscription that excludes prereleases and an event flagged prerelease
Suppressed(e, s) ==
    /\ subs[s].filters.include_prereleases = "false"
    /\ events[e].payload.prerelease

\* C5: no notification exists of a subscription with include_prereleases =
\* false for an event whose payload is flagged prerelease, whichever fan-out
\* created the notifications.
C5_PrereleaseSuppressed ==
    \A n \in 1..Len(notifications) :
        ~Suppressed(notifications[n].event_id, notifications[n].subscription_id)

\* the inline fan-out of a prerelease event has finished for a subscription
\* that excludes prereleases
C5_Witness ==
    /\ variant = "inline"
    /\ \E f \in fanned : Suppressed(f[1], f[2])

\* the same for the fan-out of the queue consumer
C5_WitnessQueue ==
    /\ variant = "queue"
    /\ \E f \in fanned : Suppressed(f[1], f[2])

\* C6: once the fan-out of an event has finished for a subscription whose
\* tag pattern does not compile, and the event passes its other filter,
\* every channel of the subscription has a notification with a delivery
\* attempted.
C6_InvalidPatternFailsOpen ==
    \A f \in fanned :
        (/\ subs[f[2]].filters.tag_regex # ""
         /\ ~RegexValid(subs[f[2]].filters.tag_regex)
         /\ ~Suppressed(f[1], f[2])) =>
            \A c \in 1..Len(subs[f[2]].channels_json) :
                \E n \in NotificationsFor(f[1], f[2]) :
                    /\ notifications[n].channel = subs[f[2]].channels_json[c].type
                    /\ notifications[n].attempts >= 1

\* C7: a notification in status error after one attempt has last_error and
\* last_error_at set; a first delivery that fails takes it from queued to
\* error with attempts = 1 and last_error_at = now; a retry that succeeds
\* takes it from error with attempts = 1 to sent with attempts = 2 and
\* sent_at = now.
C7_FailThenRetry ==
    [][\A i \in 1..Len(notifications') :
          LET new == notifications'[i] IN
          /\ (new.status = "error" /\ new.attempts = 1) =>
                 (new.last_error # "" /\ new.last_error_at # 0)
          /\ i <= Len(notifications) =>
                LET old == notifications[i] IN
                /\ (old.status = "queued" /\ new.status = "error") =>
                       (/\ old.attempts = 0
                        /\ new.attempts = 1
                        /\ new.last_error # ""
                        /\ new.last_error_at = now)
                /\ (old.status = "error" /\ old.attempts = 1
                                         /\ new.status = "sent") =>
                       (new.attempts = 2 /\ new.sent_at = now)]_vars

\* a notification failed once and was delivered by a later sweep
C7_Witness ==
    \E i \in 1..Len(notifications) :
        /\ notifications[i].status = "sent"
        /\ notifications[i].attempts = 2
        /\ notifications[i].last_error_at # 0
        /\ notifications[i].sent_at > notifications[i].last_error_at

\* C8: a notification in status error with attempts at the ceiling is never
\* written again and never deleted.
C8_ExhaustedIsTerminal ==
    [][/\ Len(notifications') >= Len(notifications)
       /\ \A i \in 1..Len(notifications) :
             (/\ notifications[i].status = "error"
              /\ notifications[i].attempts >= MaxAttempts) =>
                 notifications'[i] = notifications[i]]_vars

\* C9: a notification in status sent stays sent, and a notification that
\* left queued never returns to it.
C9_StatusMonotonic ==
    [][\A i \in 1..Len(notifications) :
          /\ notifications[i].status = "sent" =>
                notifications'[i].status = "sent"
          /\ notifications[i].status # "queued" =>
                notifications'[i].status # "queued"]_vars

\* C10: once the fan-out that created it has finished, a notification for a
\* channel kind other than telegram is in status error with last_error set.
C10_OtherChannelsFailClosed ==
    \A n \in 1..Len(notifications) :
        (/\ notifications[n].channel # "telegram"
         /\ <<notifications[n].event_id, notifications[n].subscription_id>>
                \in fanned) =>
            /\ notifications[n].status = "error"
            /\ notifications[n].last_error # ""

\* the pollRepo calls of the invocation that have not settled
InFlight == {p \in DOMAIN poller : poller[p].pc # "idle"}

\* C11: at no time are more polls in flight than one batch holds, and the
\* polls in flight belong to one batch.
C11_OneBatchInFlight ==
    /\ Cardinality(InFlight) <= BatchSize
    /\ \A p, q \in InFlight :
          (p - 1) \div BatchSize = (q - 1) \div BatchSize

\* C12: when scheduled() has returned, no poll it started is in flight and
\* every repo it started a poll of has its health written.
C12_SettledAtReturn ==
    sched.pc = "returned" =>
        /\ InFlight = {}
        /\ \A k \in 1..Len(sched.started) :
              repos[sched.started[k]].last_polled_at = now

\* the poll of the k-th selected repo was started and has settled
Settled(k) == k <= Len(sched.started) /\ poller[k].pc = "idle"

ShardPlusCooledDown(rs, minute, t) ==
    {r \in DOMAIN rs : r % ShardCount = minute}
    \cup {r \in DOMAIN rs : /\ rs[r].consecutive_errors > MaxRepoErrors
                            /\ rs[r].last_polled_at # 0
                            /\ rs[r].last_polled_at < t - RepoCooldownMs}

\* C15: the repos an invocation selects are the repos of its minute shard
\* plus the repos over the error ceiling whose last poll is older than the
\* cool-down window.
C15_Selection ==
    [][(sched.pc = "idle" /\ sched'.pc = "run") =>
          {sched'.selected[k].id : k \in 1..Len(sched'.selected)} =
              ShardPlusCooledDown(repos, sched'.minute, now)]_vars

\* C14: every poll that settles sets last_polled_at to the time of the
\* attempt and leaves consecutive_errors at 0 (success) or at one more than
\* it was (failure), so that it counts the failed polls since the last
\* successful one.
C14_HealthCounts ==
    [][\A p \in DOMAIN poller :
          (poller[p].pc # "idle" /\ poller'[p].pc = "idle") =>
              LET r == poller[p].repo IN
              /\ repos'[r].last_polled_at = now
              /\ \/ repos'[r].consecutive_errors = 0
                 \/ repos'[r].consecutive_errors =
                        repos[r].consecutive_errors + 1]_vars

\* C16: the fan-out of an event is triggered only by the step whose
\* createEvent inserted the row of its triple: a message is put on the
\* queue, or the inline fan-out started, only together with a new events
\* row of that triple, which had no row before; inline notifications are
\* created only for an event the invocation created itself.
C16_FanOutOnce ==
    [][/\ Len(queue') > Len(queue) =>
             LET m == queue'[Len(queue')] IN
             /\ Len(events') = Len(events) + 1
             /\ EventKey(events'[Len(events')]) =
                    <<m.repo_id, m.kind, m.external_id>>
             /\ EventRows(m.repo_id, m.kind, m.external_id) = {}
       /\ \A p \in DOMAIN poller :
             /\ (poller[p].pc = "loop" /\ poller'[p].pc = "notify") =>
                    /\ Len(events') = Len(events) + 1
                    /\ poller'[p].eventId = Len(events')
                    /\ EventRows(poller[p].repo, "release",
                                 ToStr(poller'[p].release)) = {}
             /\ (poller[p].pc = "notify" /\ poller'[p].pc = "deliver") =>
                    /\ poller[p].eventId \in poller[p].created
                    /\ notifications'[Len(notifications')].event_id =
                           poller[p].eventId]_vars

\* two overlapping invocations raced on one release: the one whose insert
\* returned the row id is fanning out, the other was answered null
C16_Witness ==
    \E p, q \in DOMAIN poller :
        /\ poller[p].release # 0
        /\ poller[p].release = poller[q].release
        /\ poller[p].eventId = 0
        /\ poller[q].eventId # 0
        /\ poller[q].pc \in {"notify", "deliver"}

\* what the fan-out decides for a subscription from the event and the
\* subscription's own filter and channels
OwnDecision(e, s) ==
    IF variant = "queue"
    THEN /\ ShouldNotify(events[e].kind, events[e].payload,
                         subs[s].filters) = "yes"
         /\ subs[s].channels_json # <<>>
    ELSE /\ InlineFilter(events[e].payload, subs[s].filters)
         /\ subs[s].verified # <<>>

\* C17: a subscription has notifications for an event only if its own
\* filter accepts the event, and has them once its fan-out has finished if
\* its own filter accepts the event, whatever the filters of the other
\* subscriptions do; a prerelease tagged v2.0.0-rc1 notifies neither a
\* subscription with the anchored three-part pattern nor one with
\* include_prereleases = false.
C17_IndependentFilters ==
    /\ \A n \in 1..Len(notifications) :
          OwnDecision(notifications[n].event_id,
                      notifications[n].subscription_id)
    /\ \A f \in fanned :
          OwnDecision(f[1], f[2]) => NotificationsFor(f[1], f[2]) # {}
    /\ \A e \in 1..Len(events), s \in DOMAIN subs :
          (/\ events[e].payload.prerelease
           /\ events[e].payload.tag_name = "v2.0.0-rc1"
           /\ \/ subs[s].filters.tag_regex = SemverPattern
              \/ subs[s].filters.include_prereleases = "false") =>
              NotificationsFor(e, s) = {}

\* the filter of one subscription threw and the other subscription was
\* notified of the same event
C17_Witness ==
    \E e \in 1..Len(events), a, b \in DOMAIN subs :
        /\ {<<e, a>>, <<e, b>>} \subseteq fanned
        /\ ShouldNotify(events[e].kind, events[e].payload,
                        subs[a].filters) = "throw"
        /\ variant = "queue"
        /\ NotificationsFor(e, a) = {}
        /\ NotificationsFor(e, b) # {}

\* the fan-out of a prerelease v2.0.0-rc1 has finished for a subscription
\* with the three-part pattern and one that excludes prereleases
C17_WitnessExample ==
    \E e \in 1..Len(events), a, b \in DOMAIN subs :
        /\ {<<e, a>>, <<e, b>>} \subseteq fanned
        /\ events[e].payload.tag_name = "v2.0.0-rc1"
        /\ subs[a].filters.tag_regex = SemverPattern
        /\ subs[b].filters.include_prereleases = "false"

\* C18: no two notifications have the same event_id, subscription_id and
\* channel.
C18_OneNotificationPerTriple ==
    \A m, n \in 1..Len(notifications) :
        (/\ notifications[m].event_id = notifications[n].event_id
         /\ notifications[m].subscription_id = notifications[n].subscription_id
         /\ notifications[m].channel = notifications[n].channel) => m = n

\* C19: no step changes or removes a row of the events table.
C19_EventsAppendOnly ==
    [][/\ Len(events') >= Len(events)
       /\ \A i \in 1..Len(events) : events'[i] = events[i]]_vars

\* the table holds two events, a later insert of one of them was answered
\* null, and the fan-out has read the table and notified
C19_Witness ==
    /\ Len(events) = 2
    /\ notifications # <<>>
    /\ \E p \in DOMAIN poller : poller[p].release # 0 /\ poller[p].eventId = 0

\* a step that ends a poll with the not-modified answer
NotModifiedStep(r) == nmStreak'[r] > nmStreak[r]

\* C20 as stated: a not-modified poll changes only checkedAt of the stored
\* cursor, creates no event, queue message or notification, and counts as
\* a success.
C20_OnlyCheckedAt ==
    [][\A r \in DOMAIN cursor :
          NotModifiedStep(r) =>
              /\ cursor'[r] = [cursor[r] EXCEPT !.checkedAt = now]
              /\ events' = events
              /\ queue' = queue
              /\ notifications' = notifications
              /\ repos'[r] = [consecutive_errors |-> 0,
                              last_polled_at |-> now]]_vars

\* C20: a not-modified poll writes back the cursor it read when it started
\* with only checkedAt changed, creates no event, queue message or
\* notification, and counts as a success.
C20_WritesBackWhatItRead ==
    [][\A r \in DOMAIN cursor :
          NotModifiedStep(r) =>
              /\ \E p \in DOMAIN poller :
                    /\ poller[p].pc = "got"
                    /\ poller[p].repo = r
                    /\ poller'[p].pc = "idle"
                    /\ poller[p].cur.present
                    /\ cursor'[r] = [poller[p].cur EXCEPT !.checkedAt = now]
              /\ events' = events
              /\ queue' = queue
              /\ notifications' = notifications
              /\ repos'[r] = [consecutive_errors |-> 0,
                              last_polled_at |-> now]]_vars

\* a not-modified poll of a repo that has a last seen release and an event
C20_Witness ==
    \E r \in DOMAIN cursor :
        /\ nmStreak[r] >= 1
        /\ cursor[r].lastSeenId # ""
        /\ events # <<>>

\* C21: the step that ends a poll whose modified fetch returned a non-empty
\* list stores a cursor whose lastSeenId is the greatest id of all the
\* releases the fetch returned, new or not, and whose etag and lastModified
\* are those of the answer just fetched (not the validators the poll read).
C21_CursorAdvances ==
    [][\A p \in DOMAIN poller :
          (poller[p].pc = "loop" /\ poller'[p].pc = "idle") =>
              LET me == poller[p]
                  new == cursor'[me.repo]
              IN /\ me.releases # <<>>
                 /\ new.present
                 /\ new.lastSeenId = ToStr(SetMax(Range(me.releases)))
                 /\ \A i \in Range(me.releases) : i <= ParseInt(new.lastSeenId)
                 /\ new.etag = me.etag
                 /\ new.lastModified = me.lm
                 /\ me.cur.etag # 0 => new.etag # me.cur.etag]_vars

\* a first poll of simple-poller.ts fetched two releases, none of them new,
\* and stored the greater id
C21_Witness ==
    /\ variant = "inline"
    /\ Len(rels) = 2
    /\ events = <<>>
    /\ \E r \in DOMAIN cursor : cursor[r].lastSeenId = "2"

\* C22: when a poll inserts the event of a new release b, b is the next
\* release of its loop, every new release a of the poll older than b has its
\* event row already and is no longer waiting in the loop, and the inline
\* fan-out of the events the poll created for them has finished; the step
\* that inserts an event triggers its fan-out itself (the queue message is
\* sent, or sendReleaseNotifications starts), so the fan-out of a was
\* triggered before b was inserted.
C22_OldestFirst ==
    [][\A p \in DOMAIN poller :
          poller'[p].created \ poller[p].created # {} =>
              LET me == poller[p]
                  b == poller'[p].release
                  ss == GetSubscriptionsForRepo(me.repo, "release")
              IN /\ b = Head(me.todo)
                 /\ \A a \in NewItems(p) :
                       a < b =>
                           /\ EventRows(me.repo, "release", ToStr(a)) # {}
                           /\ a \notin Range(me.todo)
                           /\ \A e \in EventRows(me.repo, "release", ToStr(a)) :
                                 /\ e < Len(events')
                                 /\ (variant = "inline" /\ e \in me.created) =>
                                        \A s \in Range(ss) : <<e, s>> \in fanned
                 /\ variant = "queue" =>
                        queue' = Append(queue, [repo_id |-> me.repo,
                                                kind |-> "release",
                                                external_id |-> ToStr(b)])
                 /\ variant = "inline" =>
                        \/ poller'[p].pc = "notify"
                        \/ \A s \in Range(ss) :
                              <<poller'[p].eventId, s>> \in fanned']_vars

\* one poll created the events of two new releases, the older one first
C22_Witness ==
    \E p \in DOMAIN poller :
        \E e1, e2 \in poller[p].created :
            /\ e1 < e2
            /\ events[e1].external_id = "2"
            /\ events[e2].external_id = "3"

\* C23: a poll whose fetch fails bumps checkedAt of the stored cursor and
\* leaves its etag, lastModified and lastSeenId as they are, or creates no
\* cursor when there is none; it creates no event, queue message or
\* notification, and the poll is counted as a failure: consecutive_errors
\* is one more than it was.
C23_FetchFailure ==
    [][\A p \in DOMAIN poller :
          FetchFail(p) =>
              LET r == poller[p].repo IN
              /\ cursor'[r] = IF cursor[r].present
                              THEN [cursor[r] EXCEPT !.checkedAt = now]
                              ELSE cursor[r]
              /\ events' = events
              /\ queue' = queue
              /\ notifications' = notifications
              /\ repos'[r].consecutive_errors =
                     repos[r].consecutive_errors + 1]_vars

\* C24: an insert that fails for a reason other than the uniqueness
\* constraint is not answered as a duplicate: the step adds no events row,
\* sends no queue message, starts no fan-out and creates no notification,
\* the loop does not go on to the next release and the poll does not
\* advance the cursor (it is left as stored, or written back as the poll
\* read it), and the poll ends counted as failed: consecutive_errors is
\* written as the selected count plus one, last_polled_at as now.
C24_InsertFailurePropagates ==
    [][\A p \in DOMAIN poller :
          CreateEventFail(p) =>
              LET me == poller[p]
                  r == me.repo
              IN /\ ~IsUniqueViolation(DatabaseError)
                 /\ events' = events
                 /\ queue' = queue
                 /\ tasks' = tasks
                 /\ notifications' = notifications
                 /\ fanned' = fanned
                 /\ poller'[p].pc = "idle"
                 /\ cursor'[r].lastSeenId \in
                        {me.cur.lastSeenId, cursor[r].lastSeenId}
                 /\ cursor'[r].etag \in {me.cur.etag, cursor[r].etag}
                 /\ repos'[r].consecutive_errors = me.errs + 1
                 /\ repos'[r].consecutive_errors >= 1
                 /\ repos'[r].last_polled_at = now]_vars

\* the first poll of poller.ts fetched a release and ended without a cursor
\* and without an event, counted as failed
C24_Witness ==
    /\ variant = "queue"
    /\ nPolls = 1
    /\ \A p \in DOMAIN poller : poller[p].pc = "idle"
    /\ firstPollIds # {}
    /\ events = <<>>
    /\ \E r \in DOMAIN cursor : /\ ~cursor[r].present
                                /\ repos[r].consecutive_errors = 1

\* the notification a delivery of the fan-out belongs to: the row exists,
\* names the event, subscription and channel kind of the delivery, and is
\* queued with no attempt counted
AwaitsDelivery(nid, eventId, subscriptionId, channel) ==
    /\ nid \in 1..Len(notifications)
    /\ notifications[nid].event_id = eventId
    /\ notifications[nid].subscription_id = subscriptionId
    /\ notifications[nid].channel = channel.type
    /\ notifications[nid].status = "queued"
    /\ notifications[nid].attempts = 0

\* a delivery wrote its outcome to row nid and to no other row
OutcomeRecorded(nid) ==
    /\ notifications'[nid].status \in {"sent", "error"}
    /\ notifications'[nid].attempts = 1
    /\ notifications'[nid].status = "error" => notifications'[nid].last_error # ""
    /\ Len(notifications') = Len(notifications)
    /\ \A i \in 1..Len(notifications) :
          i # nid => notifications'[i] = notifications[i]

\* C25: every notification row is created in status queued with attempts =
\* 0, and every delivery step of a fan-out finds the row of its
\* (event, subscription, channel) created before, still queued with no
\* attempt, and writes the outcome of the delivery to that row; the inline
\* fan-out makes no delivery for a channel it cannot address and then
\* writes nothing.
C25_QueuedBeforeDelivery ==
    [][/\ \A i \in (Len(notifications) + 1)..Len(notifications') :
             /\ notifications'[i].status = "queued"
             /\ notifications'[i].attempts = 0
             /\ notifications'[i].last_error_at = 0
             /\ notifications'[i].sent_at = 0
       /\ \A t \in tasks :
             TaskDeliver(t) =>
                 /\ AwaitsDelivery(t.nid, t.event_id, t.sub_id,
                                   subs[t.sub_id].channels_json[t.ch])
                 /\ OutcomeRecorded(t.nid)
       /\ \A p \in DOMAIN poller :
             InlineDeliver(p) =>
                 LET w == Head(poller[p].work) IN
                 /\ AwaitsDelivery(poller[p].nid, poller[p].eventId, w[1],
                                   subs[w[1]].verified[w[2]])
                 /\ \/ OutcomeRecorded(poller[p].nid)
                    \/ /\ InlineSend(subs[w[1]].verified[w[2]]) = {"skip"}
                       /\ notifications' = notifications]_vars

\* a fan-out created a notification and its delivery wrote the outcome,
\* while another notification is still waiting for its delivery
C25_Witness ==
    \E m, n \in 1..Len(notifications) :
        /\ notifications[m].attempts = 1
        /\ notifications[m].status \in {"sent", "error"}
        /\ notifications[n].status = "queued"
        /\ \E t \in tasks : t.nid = n

\* the notifications that are in status error, below the attempt ceiling
\* and past their cool-down at time t
Eligible(t) ==
    {i \in 1..Len(notifications) :
        /\ notifications[i].status = "error"
        /\ notifications[i].attempts < MaxAttempts
        /\ notifications[i].last_error_at < t - NotifCooldownMs}

\* a selection in order of oldest failure first, without repetition
OldestFailureFirst(todo) ==
    \A j, k \in 1..Len(todo) :
        j < k => /\ todo[j] # todo[k]
                 /\ notifications[todo[j]].last_error_at <=
                        notifications[todo[k]].last_error_at

\* one turn of the loop of a sweep attempts the first notification of what
\* is left of its selection, which is still in status error below the
\* ceiling, and writes to no other row
AttemptsHead(s) ==
    LET n == Head(sweep[s].todo) IN
    /\ notifications[n].status = "error"
    /\ notifications[n].attempts < MaxAttempts
    /\ notifications'[n].attempts = notifications[n].attempts + 1
    /\ \A i \in 1..Len(notifications) :
          i # n => notifications'[i] = notifications[i]
    /\ sweep'[s].todo = Tail(sweep[s].todo)

\* C26: a sweep selects, and then attempts in order of oldest failure first,
\* exactly the notifications that at selection time are in status error,
\* below the attempt ceiling and past the cool-down; the notification it
\* attempts is in status error below the ceiling.
C26_SelectsAllEligible ==
    [][\A s \in Sweepers :
          /\ SweepStart(s) =>
                 /\ Range(sweep'[s].todo) = Eligible(now)
                 /\ OldestFailureFirst(sweep'[s].todo)
          /\ SweepStep(s) => AttemptsHead(s)]_vars

\* what one sweep at a time does select and attempt: the 50 oldest failures
\* (all of them when there are fewer) among the notifications that at
\* selection time are in status error, below the attempt ceiling and past
\* the cool-down; no notification that is queued, sent, exhausted or within
\* its cool-down, and none left out failed before one that was selected
SelectsOldestPage ==
    [][\A s \in Sweepers :
          /\ SweepStart(s) =>
                 LET todo == sweep'[s].todo IN
                 /\ Range(todo) \subseteq Eligible(now)
                 /\ \A i \in Range(todo) :
                       /\ notifications[i].status \notin {"queued", "sent"}
                       /\ notifications[i].attempts < MaxAttempts
                       /\ notifications[i].last_error_at + NotifCooldownMs < now
                 /\ OldestFailureFirst(todo)
                 /\ Len(todo) = IF Cardinality(Eligible(now)) < FailedLimit
                                THEN Cardinality(Eligible(now))
                                ELSE FailedLimit
                 /\ \A i \in Eligible(now) \ Range(todo) :
                       \A j \in Range(todo) :
                           notifications[j].last_error_at <=
                               notifications[i].last_error_at
          /\ SweepStep(s) => AttemptsHead(s)]_vars

\* a sweep has selected a full page and left out a notification that is
\* as much due for its retry
FullPageSelected ==
    \E s \in Sweepers :
        /\ sweep[s].pc = "run"
        /\ Len(sweep[s].todo) = FailedLimit
        /\ Eligible(now) \ Range(sweep[s].todo) # {}

\* a delivery failed and the failure was written to row nid and no other
FailureRecorded(nid) ==
    /\ notifications'[nid].status = "error"
    /\ notifications'[nid].last_error # ""
    /\ notifications'[nid].last_error_at = now
    /\ notifications'[nid].attempts = notifications[nid].attempts + 1
    /\ Len(notifications') = Len(notifications)
    /\ \A i \in 1..Len(notifications) :
          i # nid => notifications'[i] = notifications[i]

\* every channel of a subscription whose fan-out of an event has ended has
\* its notification, with a delivery attempted where the fan-out has one
FanOutComplete ==
    \A f \in fanned :
        OwnDecision(f[1], f[2]) =>
            \A c \in 1..Len(subs[f[2]].channels_json) :
                \E n \in NotificationsFor(f[1], f[2]) :
                    /\ notifications[n].channel = subs[f[2]].channels_json[c].type
                    /\ (variant = "queue"
                        \/ subs[f[2]].channels_json[c].type = "telegram") =>
                           notifications[n].attempts >= 1

\* C27: a failed delivery is written to the notification it was for and to
\* no other row, and the work around it goes on: the fan-out of the event
\* continues with the next channel of the subscription, the fan-outs of the
\* other subscriptions are untouched, and a retry sweep keeps the rest of
\* its selection; when the fan-out of an event has ended for a
\* subscription, every channel has its notification, whichever deliveries
\* failed.
C27_FailuresIsolated ==
    [][/\ \A t \in tasks :
             (TaskDeliver(t) /\ notifications'[t.nid].status = "error") =>
                 /\ FailureRecorded(t.nid)
                 /\ tasks \ {t} \subseteq tasks'
                 /\ IF t.ch < Len(subs[t.sub_id].channels_json)
                    THEN [t EXCEPT !.ch = t.ch + 1, !.nid = 0] \in tasks'
                    ELSE <<t.event_id, t.sub_id>> \in fanned'
       /\ \A p \in DOMAIN poller :
             (InlineDeliver(p) /\ notifications'[poller[p].nid].status = "error") =>
                 /\ FailureRecorded(poller[p].nid)
                 /\ IF Tail(poller[p].work) # <<>>
                    THEN /\ poller'[p].pc = "notify"
                         /\ poller'[p].work = Tail(poller[p].work)
                    ELSE /\ poller'[p].pc = "loop"
                         /\ poller'[p].todo = Tail(poller[p].todo)
       /\ \A s \in Sweepers :
             (SweepStep(s) /\ notifications' # notifications
                           /\ notifications'[Head(sweep[s].todo)].status = "error") =>
                 /\ FailureRecorded(Head(sweep[s].todo))
                 /\ sweep'[s].todo = Tail(sweep[s].todo)
                 /\ Tail(sweep[s].todo) # <<>> => sweep'[s].pc = "run"
                 /\ \A q \in Sweepers : q # s => sweep'[q] = sweep[q]
       /\ FanOutComplete']_vars

\* the telegram delivery of a subscription failed and its e-mail channel
\* was attempted all the same, and a running sweep whose retry of one
\* notification failed still has notifications to attempt
C27_Witness ==
    /\ \E m, n \in 1..Len(notifications) :
          /\ m < n
          /\ notifications[m].event_id = notifications[n].event_id
          /\ notifications[m].subscription_id = notifications[n].subscription_id
          /\ notifications[m].channel = "telegram"
          /\ notifications[m].status = "error"
          /\ notifications[n].channel = "email"
          /\ notifications[n].attempts >= 1
    /\ \E s \in Sweepers, k \in 1..Len(notifications) :
          /\ sweep[s].pc = "run"
          /\ k \notin Range(sweep[s].todo)
          /\ notifications[k].status = "error"
          /\ notifications[k].attempts = 2

\* a poll of the cycle that follows the cycle whose cursor write was lost
AfterLostWrite(p) ==
    /\ lost.n > 0
    /\ nPolls = lost.poll + 1
    /\ poller[p].pc # "idle"

\* C28: in the poll that follows a poll whose cursor write was lost, an
\* item that has its event already is one of the new items of the poll
\* whose write was lost, its insert is answered null, and the step adds no
\* events row, queue message, fan-out or notification; at all times no
\* triple has two events and no subscription has more notifications of an
\* event than it has channels.
C28_LostWriteRedetects ==
    [][/\ \A p \in DOMAIN poller :
             (AfterLostWrite(p) /\ ProcessRelease(p)) =>
                 LET id == Head(poller[p].todo) IN
                 EventRows(poller[p].repo, "release", ToStr(id)) # {} =>
                     /\ id \in lost.ids
                     /\ poller'[p].eventId = 0
                     /\ poller'[p].pc = "loop"
                     /\ events' = events
                     /\ queue' = queue
                     /\ tasks' = tasks
                     /\ fanned' = fanned
                     /\ notifications' = notifications
       /\ \A i, j \in 1..Len(events') :
             EventKey(events'[i]) = EventKey(events'[j]) => i = j
       /\ \A e \in 1..Len(events'), s \in DOMAIN subs :
             Cardinality({n \in 1..Len(notifications') :
                             /\ notifications'[n].event_id = e
                             /\ notifications'[n].subscription_id = s})
                 <= Len(subs[s].channels_json)]_vars

\* the poll after the lost write has re-detected a release whose event was
\* notified, and its insert was answered null
C28_Witness ==
    \E p \in DOMAIN poller :
        /\ AfterLostWrite(p)
        /\ poller[p].pc = "loop"
        /\ poller[p].release \in lost.ids
        /\ poller[p].eventId = 0
        /\ \E e \in EventRows(poller[p].repo, "release", ToStr(poller[p].release)) :
              NotificationsFor(e, 1) # {}

\* C29: when the listing of the repos fails, the invocation returns
\* normally without having started a poll, and the step leaves every
\* cursor, event, notification, queue message and repos row as it was;
\* nothing of the invocation is in flight afterwards.
C29_ListingFailureAborts ==
    [][SchedListFail =>
          /\ sched'.pc = "returned"
          /\ sched'.selected = <<>>
          /\ sched'.started = <<>>
          /\ cursor' = cursor
          /\ events' = events
          /\ notifications' = notifications
          /\ queue' = queue
          /\ repos' = repos
          /\ poller' = poller
          /\ \A p \in DOMAIN poller : poller'[p].pc = "idle"]_vars

\* the invocation has returned without a selection although repos of its
\* shard were due, one of them with a cursor and a health row of failures
C29_Witness ==
    /\ sched.pc = "returned"
    /\ sched.selected = <<>>
    /\ InFlight = {}
    /\ GetReposForPolling(repos, SchedMinute, now) # <<>>
    /\ \E r \in DOMAIN cursor :
          /\ r % ShardCount = SchedMinute
          /\ cursor[r].present
          /\ repos[r].consecutive_errors > 0

\* C30: for every stored filter and every event, each evaluator answers
\* yes or no without raising, and the evaluator of the queue consumer, the
\* inline evaluator and shouldNotifyRelease give the same answer (the
\* events are those of non-draft releases; an evaluator is an operator of
\* its arguments alone, so it reads and writes no state and gives one
\* answer per input).
C30_FiltersTotalAndAgree ==
    \A e \in 1..Len(events), s \in DOMAIN subs :
        LET release == events[e].payload
            filters == subs[s].filters
            consumer == ShouldNotify(events[e].kind, release, filters)
        IN /\ ~release.draft
           /\ consumer \in {"yes", "no"}
           /\ InlineFilter(release, filters) \in BOOLEAN
           /\ ShouldNotifyRelease(release, filters) \in BOOLEAN
           /\ (consumer = "yes") = InlineFilter(release, filters)
           /\ InlineFilter(release, filters) =
                  ShouldNotifyRelease(release, filters)

\* C31: a poll that has not settled never holds back a later batch: whenever
\* the batch loop of scheduled() has repos left, the next batch can be
\* started, whatever the polls of the earlier batches are doing.
C31_LaterBatchNotDelayed ==
    (sched.pc = "run" /\ sched.i < Len(sched.selected)) => ENABLED SchedBatch

\* a poll of the second batch was started while a poll of the first batch
\* is still waiting for its upstream
C31_Witness ==
    \E p, q \in DOMAIN poller :
        /\ p <= BatchSize
        /\ q > BatchSize
        /\ poller[p].pc = "got"
        /\ poller[q].pc = "got"
        /\ sched.started[q] = poller[q].repo

\* the repo is at the error ceiling and its last poll is within the
\* cool-down window at time t
CoolingDown(repo, t) ==
    /\ repo.consecutive_errors >= MaxRepoErrors
    /\ repo.last_polled_at # 0
    /\ t - repo.last_polled_at <= RepoCooldownMs

\* a poll of the repo is in flight
BeingPolled(r) ==
    \E p \in DOMAIN poller : poller[p].pc = "got" /\ poller[p].repo = r

\* C32: no invocation selects a repo that is at the error ceiling and was
\* polled within the cool-down, no invocation selects more than 100 repos,
\* and the failing repo of a shard of more than 200 repos, passed over while
\* it cools down and then while the repos never polled come first, is
\* polled again under repeated invocations.
C32_SlowReprobe ==
    /\ [][(sched.pc = "idle" /\ sched'.pc = "run") =>
             /\ Len(sched'.selected) <= PollLimit
             /\ \A k \in 1..Len(sched'.selected) :
                   ~CoolingDown(repos[sched'.selected[k].id], now)]_vars
    /\ <>BeingPolled(ProbeFailing)

\* the failing repo is polled by the third invocation: the first passed it
\* over within its cool-down and the second, when it was due, for the
\* hundred repos never polled
C32_Witness ==
    /\ BeingPolled(ProbeFailing)
    /\ nPolls = 2
    /\ repos[ProbeFailing].consecutive_errors >= MaxRepoErrors
    /\ Cardinality({r \in ProbeRepos : repos[r].last_polled_at = 0}) = ProbeExtra - 1

\* lastSeenId as a number: no id stored counts as 0
LastSeen(state) == IF state.lastSeenId = "" THEN 0 ELSE ParseInt(state.lastSeenId)

\* C33: no step lowers the last seen id of a cursor: after every poll cycle
\* it is greater than or equal to what it was.
C33_LastSeenNeverDecreases ==
    [][\A r \in Repos : LastSeen(cursor'[r]) >= LastSeen(cursor[r])]_vars

\* the cursor a first poll stores when the upstream has no release
EmptyBaseline(state) == state.present /\ state.lastSeenId = ""

\* C34: a poll that read the cursor of an empty first poll and fetched
\* releases ends with an Event for every release it fetched.
C34_AfterEmptyFirstPoll ==
    [][\A p \in Pollers :
          (/\ poller[p].pc = "loop"
           /\ poller'[p].pc = "idle"
           /\ EmptyBaseline(poller[p].cur)) =>
              \A id \in Range(poller[p].releases) :
                  \E i \in 1..Len(events') :
                      EventKey(events'[i]) =
                          <<poller[p].repo, "release", ToStr(id)>>]_vars

\* the subscription has a channel and its filters accept the event
Matches(e, s) ==
    /\ subs[s].repo_id = events[e].repo_id
    /\ subs[s].kind = events[e].kind
    /\ IF variant = "queue"
       THEN /\ subs[s].channels_json # <<>>
            /\ ShouldNotify(events[e].kind, events[e].payload,
                            subs[s].filters) = "yes"
       ELSE /\ subs[s].verified # <<>>
            /\ InlineFilter(events[e].payload, subs[s].filters)

\* no poll, queue message or processSubscription call is in flight
Quiet ==
    /\ \A p \in DOMAIN poller : poller[p].pc = "idle"
    /\ queue = <<>>
    /\ tasks = {}

\* C35: no Event is left without fan-out: once the cursor has moved to or
\* past the id of an Event, so that no later cycle takes its release for
\* new, and nothing is in flight, every matching subscription has a
\* Notification for it.
C35_NoEventWithoutFanOut ==
    \A e \in 1..Len(events) :
        (/\ Quiet
         /\ LastSeen(cursor[events[e].repo_id]) >= ParseInt(events[e].external_id)) =>
            \A s \in SubIds : Matches(e, s) => NotificationsFor(e, s) # {}

\* the events of the repo and kind have pairwise different occurred_at
DistinctTimes(repoId, kind) ==
    \A i, j \in 1..Len(events) :
        (/\ events[i].repo_id = repoId /\ events[i].kind = kind
         /\ events[j].repo_id = repoId /\ events[j].kind = kind
         /\ events[i].occurred_at = events[j].occurred_at) => i = j

\* C36: when the consumer takes a message whose Event is in the store (and
\* no two Events of the repo share their occurred_at), it starts the
\* fan-out of that Event: every matching subscription gets its
\* processSubscription call.
C36_ConsumerFindsEvent ==
    [][Consume =>
          LET m == Head(queue) IN
          \A e \in EventRows(m.repo_id, m.kind, m.external_id) :
              DistinctTimes(m.repo_id, m.kind) =>
                  \A s \in SubIds :
                      Matches(e, s) =>
                          \E t \in tasks' : t.event_id = e /\ t.sub_id = s]_vars

\* the releases of the page the upstream serves now that a poll reading
\* the cursor state would take for new
WouldBeNew(state) ==
    Range(IF variant = "queue"
          THEN NewReleasesQueue(GetReleases, state.lastSeenId)
          ELSE NewReleasesInline(GetReleases, state.lastSeenId))

\* C37: a cycle in which processing a new release raises stores no new last
\* seen id, etag or last-modified (and creates no cursor where there was
\* none), and the release that raised and those after it in the loop are
\* taken for new again by a poll of the cursor it leaves.
C37_FailedCycleKeepsCursor ==
    [][\A p \in Pollers :
          (CreateEventFail(p) \/ FanOutFail(p)) =>
              LET r == poller[p].repo IN
              /\ cursor'[r].present = cursor[r].present
              /\ cursor'[r].lastSeenId = cursor[r].lastSeenId
              /\ cursor'[r].etag = cursor[r].etag
              /\ cursor'[r].lastModified = cursor[r].lastModified
              /\ cursor[r].present => cursor'[r].checkedAt = now
              /\ Range(poller[p].todo) \subseteq WouldBeNew(cursor'[r])]_vars

\* the same for the cycles that read a cursor with a last seen id
FailedCycleAfterBaseline ==
    [][\A p \in Pollers :
          ((CreateEventFail(p) \/ FanOutFail(p))
              /\ poller[p].cur.lastSeenId # "") =>
              LET r == poller[p].repo IN
              /\ cursor'[r] = [cursor[r] EXCEPT !.checkedAt = now]
              /\ Range(poller[p].todo) \subseteq WouldBeNew(cursor'[r])]_vars

\* C38: every turn of the retry loop settles the notification it took:
\* the row is marked sent or its attempts are incremented, so that a
\* notification in status error is selected by a bounded number of sweeps.
C38_SweepSettlesSelected ==
    [][\A s \in Sweepers :
          SweepStep(s) =>
              LET n == Head(sweep[s].todo) IN
              \/ notifications'[n].status = "sent"
              \/ notifications'[n].attempts = notifications[n].attempts + 1]_vars


\* C39: every notification has attempts at most the ceiling, also when two
\* retry sweeps run at the same time.
C39_AttemptsAtMostCeiling ==
    \A n \in DOMAIN notifications : notifications[n].attempts <= MaxAttempts

\* a step changes the attempts of a row by one at most, and only together
\* with a recorded delivery outcome (sent or error) for that row
OutcomeCountsOnce ==
    [][\A n \in DOMAIN notifications :
          \/ notifications'[n].attempts = notifications[n].attempts
          \/ /\ notifications'[n].attempts = notifications[n].attempts + 1
             /\ notifications'[n].status \in {"sent", "error"}]_vars


\* the releases of SpecDraft that were saved as drafts
WasDraft(i) == rels[i].tag_name = DraftTag

\* no Event and no cursor is for a release that is a draft
DraftsStayOut ==
    /\ \A e \in DOMAIN events : ~rels[ParseInt(events[e].external_id)].draft
    /\ \A r \in Repos :
          cursor[r].lastSeenId # "" => ~rels[ParseInt(cursor[r].lastSeenId)].draft

\* a cycle that started from a cursor with a last seen id and ran to its
\* end leaves an Event for every release it fetched that had been a draft
PublishedDraftEmitted ==
    \A p \in Pollers :
        (/\ poller[p].pc = "loop"
         /\ poller'[p].pc = "idle"
         /\ poller[p].cur.lastSeenId # "") =>
            \A i \in Range(poller[p].releases) :
                WasDraft(i) =>
                    \E e \in DOMAIN events' :
                        /\ events'[e].repo_id = poller[p].repo
                        /\ events'[e].external_id = ToStr(i)

\* the same for the releases above the last seen id only
PublishedDraftAboveEmitted ==
    [][\A p \in Pollers :
          (/\ poller[p].pc = "loop"
           /\ poller'[p].pc = "idle"
           /\ poller[p].cur.lastSeenId # "") =>
              \A i \in Range(poller[p].releases) :
                  (WasDraft(i) /\ i > ParseInt(poller[p].cur.lastSeenId)) =>
                      \E e \in DOMAIN events' :
                          /\ events'[e].repo_id = poller[p].repo
                          /\ events'[e].external_id = ToStr(i)]_vars

\* C40: a draft never becomes an Event and never is the last seen id of a
\* cursor, and a release that was a draft and is published later has its
\* Event at the end of the first cycle that fetches it, also when releases
\* with greater ids were seen before.
C40_DraftPublishedLater ==
    /\ []DraftsStayOut
    /\ [][PublishedDraftEmitted]_vars

====
